---- MODULE Spec2Model ----
(***************************************************************************)
(* Donation tracker: the chain-of-responsibility donation pipeline         *)
(* (app/services/chain_of_responsibility.py), the payment processor it     *)
(* charges through (app/services/strategy.py) and the facade's mapping of  *)
(* a pipeline run to the caller's answer (app/services/facade.py).         *)
(*                                                                         *)
(* One behaviour is one donation submission: Submit builds the request,    *)
(* one action per handler runs DonationHandler.handle for that handler,    *)
(* ProcessDonationReturn is the tail of process_donation and              *)
(* MakeDonationAnswer is the facade's answer to its caller.                *)
(*                                                                         *)
(* The handlers are duck-typed: they read and write plain attributes of    *)
(* the donation, donor and campaign ('active', 'completed',                *)
(* 'pending_review' as strings) and call four collaborators through the    *)
(* interface the handler code uses: process_payment, create, update and    *)
(* the notify methods. The request objects are records with exactly        *)
(* those attributes; each collaborator call either succeeds or raises,     *)
(* chosen by \E in the action that makes the call.                         *)
(*                                                                         *)
(* Money is counted in cents (Python floats in the source): 10000.0 is     *)
(* 1000000, 999.99 is 99999. Fees are counted in 1/1000 cent so that       *)
(* amount * 0.03 and amount * 0.029 + 0.30 are exact.                      *)
(***************************************************************************)
EXTENDS Integers, Sequences, FiniteSets, TLC

VARIABLES
    phase,      \* "idle" | "running" | "unwound" | "returned" | "answered"
    cur,        \* index in Chain of the handler whose handle() runs next; 0: none
    ret,        \* the value the outermost handle() returned ("none" before)
    request,    \* the DonationProcessingRequest of the run
    db,         \* the persistence layer: the campaign document and the stored donations
    calls,      \* collaborator invocations of this run
    events,     \* events the event manager dispatched in this run, in order
    invoked,    \* handlers whose handle() ran in this run, in order
    before,     \* the campaign document as it was when the run started
    answer,     \* what make_donation returned to its caller ("none" before)
    now,        \* datetime.utcnow(), in seconds
    cache,      \* InMemoryCache._cache: key -> [value, expires_at]
    written,    \* key -> the latest set() of the key not yet deleted or cleared
    store,      \* the wrapped campaign repository: campaign id -> document
    lastop,       \* the latest cache or proxy call: its arguments and its outcome
    ops,        \* cache and proxy calls made so far
    user_context,  \* AccessControlProxy._user_context
    access_log,    \* AccessControlProxy._access_log
    resources,     \* the repository behind the access proxy: id -> resource
    access,        \* the latest call on the access proxy and its outcome
    attempts,      \* calls made on the access proxy so far
    campaign_obj,  \* a Campaign object: status, start_date, totals
    campaign_op,   \* the latest method called on it: the object before, the value returned
    donation_obj,  \* a Donation object: status, receipt_id, timestamps
    donation_op,   \* the latest method called on it, and the receipt ids handed out so far
    observers,     \* Subject._observers, in attachment order
    event_log,     \* DonationEventManager._event_log
    dispatch_count,  \* events dispatched so far
    notified,      \* the latest dispatch: the event and who received it
    reconciled,    \* donations whose donation_refunded event reached the campaign updater
    runs,          \* concurrent pipeline runs: where each is, its campaign snapshot, its amount
    update_order,  \* the runs whose repository update wrote the campaign, in order
    served,        \* process_donation calls on one pipeline, one per thread
    entered,       \* the thread that called process_donation most recently
    saved,         \* threads whose donation the shared repository stored, in order
    workers,       \* threads calling the shared InMemoryCache: where each is in its call
    manager,       \* DatabaseManager: _instance, _lock and the instances created
    callers        \* threads calling DatabaseManager(): where each is, what it was returned

pipelinevars == <<phase, cur, ret, request, db, calls, events, invoked, before, answer>>

cachevars == <<now, cache, written, store, lastop, ops>>

accessvars == <<user_context, access_log, resources, access, attempts>>

campaignvars == <<campaign_obj, campaign_op>>

donationvars == <<donation_obj, donation_op>>

observervars == <<observers, event_log, dispatch_count, notified, reconciled>>

racevars == <<runs, update_order>>

servevars == <<served, entered, saved>>

\* the components added to the first seven
workervars == <<workers>>

singletonvars == <<manager, callers>>

extravars == <<servevars, workervars, singletonvars>>

oldvars ==
    <<pipelinevars, cachevars, accessvars, campaignvars, donationvars, observervars,
      racevars>>

vars ==
    <<pipelinevars, cachevars, accessvars, campaignvars, donationvars, observervars,
      racevars, extravars>>

\* what the steps of one component leave alone
pipelineframe ==
    <<cachevars, accessvars, campaignvars, donationvars, observervars, racevars,
      extravars>>

cacheframe ==
    <<pipelinevars, accessvars, campaignvars, donationvars, observervars, racevars,
      extravars>>

accessframe ==
    <<pipelinevars, cachevars, campaignvars, donationvars, observervars, racevars,
      extravars>>

campaignframe ==
    <<pipelinevars, cachevars, accessvars, donationvars, observervars, racevars,
      extravars>>

donationframe ==
    <<pipelinevars, cachevars, accessvars, campaignvars, observervars, racevars,
      extravars>>

\* the campaign updater writes the campaign store, and nothing else of the cache
observerframe ==
    <<pipelinevars, <<now, cache, written, lastop, ops>>, accessvars, campaignvars,
      donationvars, racevars, extravars>>

\* concurrent runs write the campaign document, and nothing else of the pipeline
serveframe == <<oldvars, workervars, singletonvars>>

singletonframe == <<oldvars, servevars, workervars>>

\* the threads on the cache write the cache, and nothing else of the proxies
workerframe ==
    <<pipelinevars, <<now, written, store, lastop, ops>>, accessvars, campaignvars,
      donationvars, observervars, racevars, servevars, singletonvars>>

raceframe ==
    <<<<phase, cur, ret, request, calls, events, invoked, before, answer>>,
      cachevars, accessvars, campaignvars, donationvars, observervars, extravars>>

-----------------------------------------------------------------------------
(* ProcessingResult and the chain built by DonationProcessingPipeline.__init__ *)

SUCCESS == "success"
FAILURE == "failure"
CONTINUE == "continue"
STOP == "stop"
ProcessingResult == {SUCCESS, FAILURE, CONTINUE, STOP}

\* what _process can do: return a ProcessingResult, or let an exception escape
RAISE == "raise"

Chain ==
    << "ValidationHandler", "DuplicateCheckHandler", "FraudDetectionHandler",
       "PaymentProcessingHandler", "DatabaseStorageHandler",
       "CampaignUpdateHandler", "NotificationHandler" >>

ChainLast == Len(Chain)

\* set_next: the successor of handler i, 0 when it has none
NextHandler(i) == IF i < ChainLast THEN i + 1 ELSE 0

-----------------------------------------------------------------------------
(* Inputs *)

\* donation amounts in cents: -5.00, 0, 100.00, 999.99, 1000.00, 1500.00,
\* 5000.00, 10000.00, 10000.01
Amounts == {-500, 0, 10000, 99999, 100000, 150000, 500000, 1000000, 1000001}

CampaignStatuses == {"draft", "active", "paused", "completed", "cancelled"}

\* (goal_amount, current_amount) of the campaign document, in cents
CampaignTotals == { <<100000, 95000>>, <<100000, 0>>, <<500000, 0>> }

\* payment_data: 'method' key ("absent": the key is missing), the card_number
\* value ("absent": no key; "plain": a string with no test pattern; "test": a
\* string containing 4111111111111111 or 4000000000000000; "nonstring": a value
\* that is not a string, e.g. None), whether the other fields the method requires
\* are present, and whether a required field holds a value the method's strategy
\* cannot process (e.g. paypal_email None)
Methods == {"absent", "credit_card", "paypal", "bank_transfer", "bitcoin"}
Cards == {"absent", "plain", "test", "nonstring"}
PaymentDatas == [method : Methods, card : Cards, complete : BOOLEAN, bad : BOOLEAN]

EmptyRequest ==
    [ donation |-> [amount |-> 0, is_number |-> TRUE, requires_review |-> FALSE,
                    status |-> "pending", transaction_id |-> "none",
                    payment_method |-> "none", payment_fee |-> 0,
                    fee_amount |-> 0, net_amount |-> 0],
      donor |-> [is_active |-> TRUE, has_id |-> TRUE],
      campaign |-> [status |-> "draft", ended |-> FALSE, goal_amount |-> 0,
                    current_amount |-> 0, donation_count |-> 0],
      payment_data |-> [method |-> "absent", card |-> "absent",
                        complete |-> FALSE, bad |-> FALSE],
      processing_context |-> [fraud_score |-> -1, fraud_reasons |-> {},
                              duplicate_key |-> "none",
                              payment_success |-> "none", saved_donation |-> FALSE,
                              updated_campaign |-> FALSE, final_result |-> "none"],
      errors |-> << >>,
      warnings |-> << >>,
      processing_log |-> << >> ]

\* DonationProcessingRequest.add_error / add_warning / log_processing_step
add_error(rq, error, handler) ==
    [rq EXCEPT !.errors = Append(@, [message |-> error, handler |-> handler])]

add_warning(rq, warning, handler) ==
    [rq EXCEPT !.warnings = Append(@, [message |-> warning, handler |-> handler])]

log_processing_step(rq, handler, result, message) ==
    [rq EXCEPT !.processing_log =
        Append(@, [handler |-> handler, result |-> result, message |-> message])]

has_errors(rq) == Len(rq.errors) > 0

set_context_value(rq, key, value) ==
    [rq EXCEPT !.processing_context[key] = value]

-----------------------------------------------------------------------------
(* DonationHandler.handle: the dispatch rule shared by every handler *)

\* handle() reporting STOP to the caller as STOP
handle_stop_reported(i, r, rq) ==
    IF r = RAISE
    THEN [ request |-> log_processing_step(
                           add_error(rq, "Unexpected error in handler", Chain[i]),
                           Chain[i], FAILURE, "exception"),
           next |-> 0, ret |-> FAILURE ]
    ELSE LET logged == log_processing_step(rq, Chain[i], r, "") IN
         IF r \in {FAILURE, STOP} THEN [request |-> logged, next |-> 0, ret |-> r]
         ELSE IF NextHandler(i) # 0
              THEN [request |-> logged, next |-> NextHandler(i), ret |-> "none"]
              ELSE [request |-> logged, next |-> 0, ret |-> r]

\* handle() without its except clause: the exception leaves the chain
handle_uncaught(i, r, rq) ==
    IF r = RAISE
    THEN [request |-> rq, next |-> 0, ret |-> RAISE]
    ELSE LET logged == log_processing_step(rq, Chain[i], r, "") IN
         IF r = FAILURE THEN [request |-> logged, next |-> 0, ret |-> FAILURE]
         ELSE IF r = STOP THEN [request |-> logged, next |-> 0, ret |-> SUCCESS]
         ELSE IF NextHandler(i) # 0
              THEN [request |-> logged, next |-> NextHandler(i), ret |-> "none"]
              ELSE [request |-> logged, next |-> 0, ret |-> r]

\* handle() that goes on to the next handler after a FAILURE
handle_failure_continues(i, r, rq) ==
    IF r = RAISE
    THEN [ request |-> log_processing_step(
                           add_error(rq, "Unexpected error in handler", Chain[i]),
                           Chain[i], FAILURE, "exception"),
           next |-> 0, ret |-> FAILURE ]
    ELSE LET logged == log_processing_step(rq, Chain[i], r, "") IN
         IF r = STOP THEN [request |-> logged, next |-> 0, ret |-> SUCCESS]
         ELSE IF NextHandler(i) # 0
              THEN [request |-> logged, next |-> NextHandler(i), ret |-> "none"]
              ELSE [request |-> logged, next |-> 0, ret |-> r]

\* The outcome of handle() of handler i whose _process returned r (or raised)
\* and left the request as rq: the request after logging, the handler that
\* runs next (0: the chain unwinds) and the value handed back up the chain.
handle(i, r, rq) ==
    IF r = RAISE
    THEN [ request |-> log_processing_step(
                           add_error(rq, "Unexpected error in handler", Chain[i]),
                           Chain[i], FAILURE, "exception"),
           next |-> 0, ret |-> FAILURE ]
    ELSE LET logged == log_processing_step(rq, Chain[i], r, "") IN
         IF r = FAILURE THEN [request |-> logged, next |-> 0, ret |-> FAILURE]
         ELSE IF r = STOP THEN [request |-> logged, next |-> 0, ret |-> SUCCESS]
         ELSE IF NextHandler(i) # 0 /\ r \in {SUCCESS, CONTINUE}
              THEN [request |-> logged, next |-> NextHandler(i), ret |-> "none"]
              ELSE [request |-> logged, next |-> 0, ret |-> r]

\* handle() of handler i as a step of the run
Handle(i, r, rq) ==
    LET o == handle(i, r, rq) IN
    /\ request' = o.request
    /\ cur' = o.next
    /\ ret' = o.ret
    /\ phase' = IF o.next = 0 THEN "unwound" ELSE "running"
    /\ invoked' = Append(invoked, Chain[i])

-----------------------------------------------------------------------------
(* ValidationHandler *)

\* max_donation = 10000.0, in cents
max_donation == 1000000

\* total_after_donation > goal_amount * 1.1, in exact arithmetic
ExceedsOverage(campaign, amount) ==
    /\ campaign.goal_amount # 0
    /\ 10 * (campaign.current_amount + amount) > 11 * campaign.goal_amount

\* the limit test with the limit itself refused
ExceedsMaximum_inclusive(amount) == amount >= max_donation

\* request.donation.amount > max_donation
ExceedsMaximum(amount) == amount > max_donation

ValidationHandler_process(rq) ==
    LET h == Chain[1] IN
    IF ~rq.donation.is_number
    THEN [result |-> RAISE, request |-> rq]
    ELSE IF rq.donation.amount <= 0
    THEN [result |-> FAILURE,
          request |-> add_error(rq, "Donation amount must be greater than 0", h)]
    ELSE IF ExceedsMaximum(rq.donation.amount)
    THEN [result |-> FAILURE,
          request |-> add_error(rq, "Donation amount exceeds maximum limit", h)]
    ELSE IF rq.campaign.status # "active"
    THEN [result |-> FAILURE,
          request |-> add_error(rq, "Cannot donate to inactive campaign", h)]
    ELSE IF rq.campaign.ended
    THEN [result |-> FAILURE, request |-> add_error(rq, "Campaign has ended", h)]
    ELSE IF ~rq.donor.is_active
    THEN [result |-> FAILURE,
          request |-> add_error(rq, "Donor account is inactive", h)]
    ELSE LET warned == IF ExceedsOverage(rq.campaign, rq.donation.amount)
                       THEN add_warning(rq, "Donation would exceed campaign goal", h)
                       ELSE rq
         IN [result |-> SUCCESS,
             request |-> log_processing_step(warned, h, SUCCESS, "Validation passed")]

-----------------------------------------------------------------------------
(* DuplicateCheckHandler *)

DuplicateCheckHandler_process(rq) ==
    LET h == Chain[2] IN
    IF ~rq.donor.has_id
    THEN [result |-> RAISE, request |-> rq]
    ELSE [result |-> SUCCESS,
          request |-> log_processing_step(
                          set_context_value(rq, "duplicate_key", "set"),
                          h, SUCCESS, "No duplicates found")]

-----------------------------------------------------------------------------
(* FraudDetectionHandler *)

\* the weights of the five signals and the two thresholds
W_new_donor == 30
W_recent_large == 25
W_payment_pattern == 20
W_suspicious_amount == 15
W_rapid == 10
RejectScore == 70
ReviewScore == 40

\* request.donation.amount > 1000, in cents
LargeAmount(amount) == amount > 1000 * 100

\* suspicious_amounts = [999.99, 1000.00, 5000.00, 9999.99], in cents
suspicious_amounts == {99999, 100000, 500000, 999999}

\* the three donor-history checks as the source implements them: constants
ImplementedSignals == [new_donor |-> TRUE, recent_large |-> FALSE, rapid |-> FALSE]

\* the same three checks as hooks a subclass overrides
SignalHooks == [new_donor : BOOLEAN, recent_large : BOOLEAN, rapid : BOOLEAN]

\* _has_suspicious_payment_pattern, for a card_number that is a string
has_suspicious_payment_pattern(payment_data) == payment_data.card = "test"

\* the fraud reasons of a request, given the donor-history signals
FraudReasons(rq, sig) ==
    (IF LargeAmount(rq.donation.amount) /\ sig.new_donor
        THEN {"Large amount from new donor"} ELSE {})
    \cup (IF sig.recent_large THEN {"Multiple large donations recently"} ELSE {})
    \cup (IF has_suspicious_payment_pattern(rq.payment_data)
        THEN {"Suspicious payment pattern"} ELSE {})
    \cup (IF rq.donation.amount \in suspicious_amounts
        THEN {"Donation amount matches common fraud pattern"} ELSE {})
    \cup (IF sig.rapid THEN {"Rapid consecutive donations"} ELSE {})

Weight(reason) ==
    CASE reason = "Large amount from new donor" -> W_new_donor
      [] reason = "Multiple large donations recently" -> W_recent_large
      [] reason = "Suspicious payment pattern" -> W_payment_pattern
      [] reason = "Donation amount matches common fraud pattern" -> W_suspicious_amount
      [] reason = "Rapid consecutive donations" -> W_rapid

RECURSIVE SumWeights(_)
SumWeights(reasons) ==
    IF reasons = {} THEN 0
    ELSE LET x == CHOOSE y \in reasons : TRUE
         IN Weight(x) + SumWeights(reasons \ {x})

FraudScore(rq, sig) == SumWeights(FraudReasons(rq, sig))

\* a banding with both thresholds exclusive
FraudBand_exclusive(score) ==
    IF score > RejectScore THEN "reject"
    ELSE IF score > ReviewScore THEN "review"
    ELSE "accept"

\* a banding that never rejects
FraudBand_no_reject(score) ==
    IF score >= ReviewScore THEN "review" ELSE "accept"

\* the banding of a computed score: "reject", "review" or "accept"
FraudBand(score) ==
    IF score >= RejectScore THEN "reject"
    ELSE IF score >= ReviewScore THEN "review"
    ELSE "accept"

FraudDetectionHandler_process(rq, sig) ==
    LET h == Chain[3] IN
    IF rq.payment_data.card = "nonstring"
    THEN [result |-> RAISE, request |-> rq]
    ELSE LET score == FraudScore(rq, sig)
             scored == set_context_value(
                           set_context_value(rq, "fraud_score", score),
                           "fraud_reasons", FraudReasons(rq, sig))
             band == FraudBand(score)
         IN IF band = "reject"
            THEN [result |-> FAILURE,
                  request |-> add_error(scored, "High fraud risk", h)]
            ELSE LET flagged ==
                        IF band = "review"
                        THEN [add_warning(scored, "Medium fraud risk", h)
                                 EXCEPT !.donation.requires_review = TRUE]
                        ELSE scored
                 IN [result |-> SUCCESS,
                     request |-> log_processing_step(flagged, h, SUCCESS,
                                                     "Fraud check passed")]

-----------------------------------------------------------------------------
(* PaymentProcessor (strategy.py) and PaymentProcessingHandler *)

Strategies == {"credit_card", "paypal", "bank_transfer"}

\* a validation that accepts every payment_data
validate_payment_data_any(method, payment_data) == TRUE

\* PaymentStrategy.validate_payment_data: the required keys are present
validate_payment_data(method, payment_data) ==
    CASE method = "credit_card" -> payment_data.card # "absent" /\ payment_data.complete
      [] method = "paypal" -> payment_data.complete
      [] method = "bank_transfer" -> payment_data.complete

\* PaymentStrategy.process_payment raises on a value it cannot process
StrategyRaises(method, payment_data) ==
    CASE method = "credit_card" -> payment_data.card = "nonstring"
      [] method = "paypal" -> payment_data.bad
      [] method = "bank_transfer" -> payment_data.bad

\* the fee of a strategy in 1/1000 cent: 3%, 2.9% + $0.30, 1%
Fee(method, amount) ==
    CASE method = "credit_card" -> 30 * amount
      [] method = "paypal" -> 29 * amount + 30000
      [] method = "bank_transfer" -> 10 * amount

\* PaymentProcessor.process_payment: the result dict, or "raised" for ValueError
process_payment(payment_method, amount, payment_data) ==
    IF payment_method \notin Strategies
    THEN [raised |-> TRUE, success |-> FALSE, error |-> "Unsupported payment method",
          transaction_id |-> "none", payment_method |-> payment_method, fee |-> 0]
    ELSE IF ~validate_payment_data(payment_method, payment_data)
    THEN [raised |-> FALSE, success |-> FALSE, error |-> "Invalid payment data",
          transaction_id |-> "none", payment_method |-> payment_method, fee |-> 0]
    ELSE IF StrategyRaises(payment_method, payment_data)
    THEN [raised |-> FALSE, success |-> FALSE, error |-> "strategy exception",
          transaction_id |-> "none", payment_method |-> payment_method, fee |-> 0]
    ELSE [raised |-> FALSE, success |-> TRUE, error |-> "none",
          transaction_id |-> "txn", payment_method |-> payment_method,
          fee |-> Fee(payment_method, amount)]

\* request.payment_data.get('method', 'credit_card')
PaymentMethodOf(payment_data) ==
    IF payment_data.method = "absent" THEN "credit_card" ELSE payment_data.method

PaymentProcessingHandler_process(rq) ==
    LET h == Chain[4]
        payment_result == process_payment(PaymentMethodOf(rq.payment_data),
                                          rq.donation.amount, rq.payment_data)
    IN IF payment_result.raised
       THEN [result |-> FAILURE,
             request |-> add_error(rq, "Payment processing error: " \o payment_result.error,
                                   h)]
       ELSE IF payment_result.success
       THEN [result |-> SUCCESS,
             request |-> log_processing_step(
                 [set_context_value(rq, "payment_success", "true")
                     EXCEPT !.donation.transaction_id = payment_result.transaction_id,
                            !.donation.payment_method = payment_result.payment_method,
                            !.donation.payment_fee = payment_result.fee],
                 h, SUCCESS, "Payment processed")]
       ELSE [result |-> FAILURE,
             request |-> add_error(set_context_value(rq, "payment_success", "false"),
                                   "Payment failed: " \o payment_result.error, h)]

\* Donation.set_transaction_details: the one place that writes fee_amount and
\* net_amount (fee_amount in cents)
set_transaction_details(donation, transaction_id, fee_amount) ==
    [donation EXCEPT !.transaction_id = transaction_id,
                     !.fee_amount = fee_amount,
                     !.net_amount = donation.amount - fee_amount]

-----------------------------------------------------------------------------
(* DatabaseStorageHandler *)

\* a Storage that ignores the review flag
StorageStatus_completed(donation) == "completed"

\* the status Storage gives the donation
StorageStatus(donation) ==
    IF donation.requires_review THEN "pending_review" ELSE "completed"

\* created: "ok" when donation_repository.create returned, "raise" when it raised.
\* Yields the handler's result, the request and the stored donations.
DatabaseStorageHandler_process(rq, donations, created) ==
    LET h == Chain[5]
        marked == [rq EXCEPT !.donation.status = StorageStatus(rq.donation)]
    IN IF created = "raise"
       THEN [result |-> FAILURE,
             request |-> add_error(marked, "Database storage error", h),
             donations |-> donations]
       ELSE [result |-> SUCCESS,
             request |-> log_processing_step(
                             set_context_value(marked, "saved_donation", TRUE),
                             h, SUCCESS, "Donation saved"),
             donations |-> Append(donations, marked.donation)]

-----------------------------------------------------------------------------
(* CampaignUpdateHandler *)

\* the campaign after the handler's in-memory update for a completed donation
AddToCampaign(campaign, amount) ==
    LET added == [campaign EXCEPT !.current_amount = @ + amount,
                                  !.donation_count = @ + 1]
    IN IF added.goal_amount # 0 /\ added.current_amount >= added.goal_amount
       THEN [added EXCEPT !.status = "completed"]
       ELSE added

GoalReached(campaign, amount) ==
    AddToCampaign(campaign, amount).status = "completed"
    /\ campaign.goal_amount # 0
    /\ campaign.current_amount + amount >= campaign.goal_amount

\* updated: "ok" when campaign_repository.update wrote the document, "nomatch"
\* when it returned False (no document modified), "raise" when it raised.
\* Yields the handler's result, the request, the campaign document and whether
\* the repository was called.
CampaignUpdateHandler_process(rq, document, updated) ==
    LET h == Chain[6] IN
    IF rq.donation.status = "completed"
    THEN LET added == [rq EXCEPT !.campaign =
                            AddToCampaign(rq.campaign, rq.donation.amount)]
             warned == IF GoalReached(rq.campaign, rq.donation.amount)
                       THEN add_warning(added, "Campaign goal reached!", h)
                       ELSE added
         IN IF updated = "raise"
            THEN [result |-> FAILURE,
                  request |-> add_error(warned, "Campaign update error", h),
                  document |-> document, called |-> TRUE]
            ELSE [result |-> SUCCESS,
                  request |-> log_processing_step(
                      set_context_value(warned, "updated_campaign", updated = "ok"),
                      h, SUCCESS, "Campaign updated"),
                  document |-> IF updated = "ok" THEN warned.campaign ELSE document,
                  called |-> TRUE]
    ELSE [result |-> SUCCESS,
          request |-> log_processing_step(rq, h, SUCCESS,
                          "Campaign not updated - donation pending review"),
          document |-> document, called |-> FALSE]

-----------------------------------------------------------------------------
(* NotificationHandler *)

\* the event the handler raises for the donation, "none" when it raises none
DonationEvent(donation) ==
    IF donation.status = "completed" THEN "DonationCompleted"
    ELSE IF donation.status = "pending_review" THEN "DonationPendingReview"
    ELSE "none"

\* whether the handler raises the goal-reached event
GoalEventDue(rq) ==
    rq.campaign.status = "completed" /\ rq.processing_context.updated_campaign

\* the except branch: an error and a warning are recorded, the result is SUCCESS
NotificationFailed(rq, dispatched) ==
    LET h == Chain[7] IN
    [result |-> SUCCESS,
     request |-> add_warning(add_error(rq, "Notification error", h),
                     "Notifications failed but donation was processed", h),
     events |-> dispatched]

\* sent1, sent2: "ok" when the event manager's notify call for the donation
\* event (sent1) and for the goal-reached event (sent2) returned, "raise" when
\* it raised. Yields the handler's result, the request and the events
\* dispatched so far.
NotificationHandler_process(rq, dispatched, sent1, sent2) ==
    LET h == Chain[7]
        ev == DonationEvent(rq.donation)
    IN IF ev # "none" /\ sent1 = "raise"
       THEN NotificationFailed(rq, dispatched)
       ELSE LET first == IF ev # "none" THEN Append(dispatched, ev) ELSE dispatched
            IN IF GoalEventDue(rq)
               THEN IF sent2 = "raise"
                    THEN NotificationFailed(rq, first)
                    ELSE [result |-> SUCCESS,
                          request |-> log_processing_step(rq, h, SUCCESS,
                                                          "Notifications sent"),
                          events |-> Append(first, "CampaignGoalReached")]
               ELSE [result |-> SUCCESS,
                     request |-> log_processing_step(rq, h, SUCCESS,
                                                     "Notifications sent"),
                     events |-> first]

-----------------------------------------------------------------------------
(* InMemoryCache (proxy.py) *)

\* the clock advances in steps of TickSeconds up to MaxTime; at most MaxOps
\* proxy calls are made in one behaviour
TickSeconds == 300
MaxTime == 600
MaxOps == 3

\* what a call returns when it returns None
NoValue == "None"

EmptyCache == [k \in {} |-> TRUE]

\* del self._cache[key]
Without(c, key) == [k \in DOMAIN c \ {key} |-> c[k]]

\* a get that still serves an entry at the instant it expires
cache_get_inclusive(c, key, t) ==
    IF key \in DOMAIN c
    THEN IF c[key].expires_at >= t
         THEN [found |-> TRUE, value |-> c[key].value, cache |-> c]
         ELSE [found |-> FALSE, value |-> NoValue, cache |-> Without(c, key)]
    ELSE [found |-> FALSE, value |-> NoValue, cache |-> c]

\* InMemoryCache.get at time t: whether a value is returned, the value, and
\* the cache afterwards (an expired entry is removed)
cache_get(c, key, t) ==
    IF key \in DOMAIN c
    THEN IF c[key].expires_at > t
         THEN [found |-> TRUE, value |-> c[key].value, cache |-> c]
         ELSE [found |-> FALSE, value |-> NoValue, cache |-> Without(c, key)]
    ELSE [found |-> FALSE, value |-> NoValue, cache |-> c]

\* InMemoryCache.set at time t
cache_set(c, key, value, ttl, t) ==
    [k \in DOMAIN c \cup {key} |->
        IF k = key THEN [value |-> value, expires_at |-> t + ttl] ELSE c[k]]

\* InMemoryCache.delete
cache_delete(c, key) == IF key \in DOMAIN c THEN Without(c, key) ELSE c

\* InMemoryCache.clear
cache_clear(c) == EmptyCache

\* InMemoryCache.exists: self.get(key) is not None
cache_exists(c, key, t) ==
    LET g == cache_get(c, key, t) IN [found |-> g.found, cache |-> g.cache]

\* no document of the wrapped repository
NoDocument ==
    [exists |-> FALSE, creator_id |-> "None", goal_amount |-> 0, current_amount |-> 0,
     donation_count |-> 0, status |-> "None"]

\* the record of a call: what was asked, at what time, on which cache
Call(op, key) ==
    [op |-> op, key |-> key, at |-> now, before |-> cache, target |-> "none",
     args |-> << >>, hit |-> FALSE, found |-> FALSE, value |-> NoValue,
     result |-> {},
     delegated |-> 0, wrapped |-> {}, raised |-> FALSE, wrapped_raised |-> FALSE,
     wrote |-> FALSE, stored |-> NoDocument]

\* the campaigns of the wrapped repository and their goal, in cents
CampaignIds == {"c1", "c2"}
GoalAmount == 20000

DonationAmount == 10000

InitCache ==
    /\ now = 0
    /\ cache = EmptyCache
    /\ written = EmptyCache
    /\ lastop = [op |-> "none", key |-> "none", at |-> 0, before |-> EmptyCache,
               target |-> "none", args |-> << >>, hit |-> FALSE, found |-> FALSE,
               value |-> NoValue,
               result |-> {}, delegated |-> 0, wrapped |-> {}, raised |-> FALSE,
               wrapped_raised |-> FALSE, wrote |-> FALSE, stored |-> NoDocument]
    /\ ops = 0
    /\ store = [id \in CampaignIds |->
                  [exists |-> id = "c1",
                   creator_id |-> IF id = "c1" THEN "u1" ELSE "u2",
                   goal_amount |-> GoalAmount,
                   current_amount |-> IF id = "c1" THEN DonationAmount ELSE 0,
                   donation_count |-> IF id = "c1" THEN 1 ELSE 0,
                   status |-> "active"]]

-----------------------------------------------------------------------------
(* AccessControlProxy: users, resources and the state after __init__ *)

MaxCalls == 2

\* the value of an attribute the object does not have
NoAttr == "<missing>"

\* no user context (None)
NoUser == [id |-> "None", role |-> "None"]

Users ==
    { [id |-> "u1", role |-> "donor"],
      [id |-> "u2", role |-> "donor"],
      [id |-> "a1", role |-> "admin"] }

\* find_by_id found nothing (None)
NoResource == [id |-> "None", creator_id |-> NoAttr, donor_id |-> NoAttr]

ResourceIds == {"r1", "r2"}

\* a resource handed to create or update: a campaign carries creator_id, a
\* donation donor_id
Resources ==
    { [id |-> i, creator_id |-> o, donor_id |-> NoAttr] :
          i \in ResourceIds, o \in {"u1", "u2"} }
    \cup { [id |-> i, creator_id |-> NoAttr, donor_id |-> o] :
          i \in ResourceIds, o \in {"u1", "u2"} }

AccessCall(op) ==
    [op |-> op, user |-> user_context, log_before |-> access_log,
     resources_before |-> resources, target |-> "none", checked |-> NoResource,
     logged |-> "none", decided |-> FALSE, allowed |-> FALSE, reason |-> "",
     denied |-> FALSE, error |-> "", delegated |-> 0,
     lookup_raised |-> FALSE, wrapped_raised |-> FALSE]

InitAccess ==
    /\ user_context = NoUser
    /\ access_log = << >>
    /\ resources = [i \in ResourceIds |->
                       IF i = "r1"
                       THEN [id |-> i, creator_id |-> "u1", donor_id |-> NoAttr]
                       ELSE [id |-> i, creator_id |-> NoAttr, donor_id |-> "u2"]]
    /\ attempts = 0
    /\ access = [op |-> "none", user |-> NoUser, log_before |-> << >>,
                 resources_before |-> resources, target |-> "none",
                 checked |-> NoResource, logged |-> "none", decided |-> FALSE,
                 allowed |-> FALSE, reason |-> "", denied |-> FALSE,
                 error |-> "", delegated |-> 0, lookup_raised |-> FALSE,
                 wrapped_raised |-> FALSE]

(* Campaign: the object after __init__ *)

\* start_date is None
NoDate == -1

MaxDonations == 3

InitCampaign ==
    /\ campaign_obj = [status |-> "draft", start_date |-> NoDate,
                       goal_amount |-> GoalAmount, current_amount |-> 0,
                       donation_count |-> 0]
    /\ campaign_op = [op |-> "none", before |-> campaign_obj, at |-> 0,
                      returned |-> FALSE]

(* Donation: the object after __init__ *)

\* the last four characters of the donation id, upper-cased
IdPart == "9F3A"

\* created_at.strftime('%Y%m%d'): the day the second t falls in
strftime(t) ==
    IF t \div 86400 = 0 THEN "19700101" ELSE "19700102"

InitDonation ==
    /\ donation_obj = [status |-> "pending", created_at |-> 0,
                       completed_at |-> NoDate, transaction_id |-> "None",
                       receipt_id |-> "None", refund_id |-> "None",
                       refunded_at |-> NoDate]
    /\ donation_op = [op |-> "none", before |-> donation_obj, at |-> 0,
                      returned |-> "None", issued |-> {}, direct |-> FALSE]

(* DonationEventManager: the instance get_donation_event_manager builds *)

MaxEvents == 3

MaxLogged == 1003

event_log_limit == 1000

\* the observers attached by default, in that order
DefaultObservers == <<"email", "campaign", "analytics">>

InitObservers ==
    /\ observers = DefaultObservers
    /\ event_log = << >>
    /\ dispatch_count = 0
    /\ notified = [event_type |-> "none", serial |-> 0, donation_id |-> "none",
                   attached |-> << >>, deliveries |-> << >>, last_logged |-> 0,
                   raised |-> FALSE, repeated |-> FALSE, staged |-> FALSE,
                   kept |-> << >>,
                   current_amount |-> 0, donation_count |-> 0]
    /\ reconciled = {}

(* Concurrent pipeline runs: none has started *)

RunIds == {"r1", "r2", "r3"}

InitRuns ==
    /\ runs = [r \in RunIds |-> [pc |-> "start", amount |-> 0, read_after |-> 0]]
    /\ update_order = << >>

(* One pipeline serving two threads: neither has called process_donation *)

Threads == {"t1", "t2"}

NoAnswers == [created |-> "none", updated |-> "none", sent1 |-> "none", sent2 |-> "none"]

InitServed ==
    /\ served = [t \in Threads |->
                    [pc |-> "start", cur |-> 0, ret |-> "none", given |-> EmptyRequest,
                     request |-> EmptyRequest, document |-> EmptyRequest.campaign,
                     answers |-> NoAnswers, overlapped |-> FALSE]]
    /\ entered = "none"
    /\ saved = << >>

(* Two threads on one InMemoryCache: neither is inside a call *)

Idle ==
    [pc |-> "idle", op |-> "none", key |-> "none",
     entry |-> [value |-> "None", expires_at |-> 0],
     size |-> 0, remaining |-> {}, todo |-> {}, returned |-> "None",
     error |-> "none", stale |-> FALSE]

InitWorkers == workers = [t \in Threads |-> Idle]

(* DatabaseManager before any construction: _instance is None, _lock is free *)

Callers == {"t1", "t2", "t3"}

InitSingleton ==
    /\ manager = [instance |-> 0, lock |-> "free", objects |-> << >>, reset |-> FALSE]
    /\ callers = [t \in Callers |-> [pc |-> "idle", obj |-> 0, raced |-> FALSE]]

Init ==
    /\ phase = "idle"
    /\ cur = 0
    /\ ret = "none"
    /\ request = EmptyRequest
    /\ \E st \in CampaignStatuses, en \in BOOLEAN, t \in CampaignTotals :
          db = [ campaign |-> [status |-> st, ended |-> en, goal_amount |-> t[1],
                               current_amount |-> t[2], donation_count |-> 0],
                 donations |-> << >> ]
    /\ calls = [payment |-> 0, create |-> 0, update |-> 0]
    /\ events = << >>
    /\ invoked = << >>
    /\ before = db.campaign
    /\ answer = "none"
    /\ InitCache
    /\ InitAccess
    /\ InitCampaign
    /\ InitDonation
    /\ InitObservers
    /\ InitRuns
    /\ InitServed
    /\ InitWorkers
    /\ InitSingleton

-----------------------------------------------------------------------------
(* The run *)

Donations ==
    { [EmptyRequest.donation EXCEPT !.amount = a, !.net_amount = a] : a \in Amounts }
    \cup { [EmptyRequest.donation EXCEPT !.is_number = FALSE] }

Donors ==
    { [is_active |-> TRUE, has_id |-> TRUE],
      [is_active |-> FALSE, has_id |-> TRUE],
      [is_active |-> TRUE, has_id |-> FALSE] }

Outcomes == {"ok", "raise"}

\* make_donation up to the call of process_donation, and the construction of
\* the DonationProcessingRequest: the campaign is the one read from the store
Submit ==
    /\ phase = "idle"
    /\ \E d \in Donations, u \in Donors, pd \in PaymentDatas :
          request' = [EmptyRequest EXCEPT !.donation = d, !.donor = u,
                                          !.campaign = db.campaign,
                                          !.payment_data = pd]
    /\ phase' = "running"
    /\ cur' = 1
    /\ before' = db.campaign
    /\ UNCHANGED <<ret, db, calls, events, invoked, answer>>
    /\ UNCHANGED pipelineframe

Validation ==
    /\ phase = "running" /\ cur = 1
    /\ LET p == ValidationHandler_process(request)
       IN Handle(1, p.result, p.request)
    /\ UNCHANGED <<db, calls, events, before, answer>>
    /\ UNCHANGED pipelineframe

DuplicateCheck ==
    /\ phase = "running" /\ cur = 2
    /\ LET p == DuplicateCheckHandler_process(request)
       IN Handle(2, p.result, p.request)
    /\ UNCHANGED <<db, calls, events, before, answer>>
    /\ UNCHANGED pipelineframe

FraudDetection ==
    /\ phase = "running" /\ cur = 3
    /\ LET p == FraudDetectionHandler_process(request, ImplementedSignals)
       IN Handle(3, p.result, p.request)
    /\ UNCHANGED <<db, calls, events, before, answer>>
    /\ UNCHANGED pipelineframe

\* the handler with the donor-history checks overridden
FraudDetectionHooked ==
    /\ phase = "running" /\ cur = 3
    /\ \E sig \in SignalHooks :
          LET p == FraudDetectionHandler_process(request, sig)
          IN Handle(3, p.result, p.request)
    /\ UNCHANGED <<db, calls, events, before, answer>>
    /\ UNCHANGED pipelineframe

PaymentProcessing ==
    /\ phase = "running" /\ cur = 4
    /\ LET p == PaymentProcessingHandler_process(request)
       IN Handle(4, p.result, p.request)
    /\ calls' = [calls EXCEPT !.payment = @ + 1]
    /\ UNCHANGED <<db, events, before, answer>>
    /\ UNCHANGED pipelineframe

DatabaseStorage ==
    /\ phase = "running" /\ cur = 5
    /\ \E created \in Outcomes :
          LET p == DatabaseStorageHandler_process(request, db.donations, created)
          IN /\ Handle(5, p.result, p.request)
             /\ db' = [db EXCEPT !.donations = p.donations]
    /\ calls' = [calls EXCEPT !.create = @ + 1]
    /\ UNCHANGED <<events, before, answer>>
    /\ UNCHANGED pipelineframe

CampaignUpdate ==
    /\ phase = "running" /\ cur = 6
    /\ \E updated \in Outcomes \cup {"nomatch"} :
          LET p == CampaignUpdateHandler_process(request, db.campaign, updated)
          IN /\ Handle(6, p.result, p.request)
             /\ db' = [db EXCEPT !.campaign = p.document]
             /\ calls' = [calls EXCEPT !.update = IF p.called THEN @ + 1 ELSE @]
    /\ UNCHANGED <<events, before, answer>>
    /\ UNCHANGED pipelineframe

Notification ==
    /\ phase = "running" /\ cur = 7
    /\ \E sent1 \in Outcomes, sent2 \in Outcomes :
          LET p == NotificationHandler_process(request, events, sent1, sent2)
          IN /\ Handle(7, p.result, p.request)
             /\ events' = p.events
    /\ UNCHANGED <<db, calls, before, answer>>
    /\ UNCHANGED pipelineframe

\* process_donation after the chain returned: final_result is set and the
\* request is handed back
ProcessDonationReturn ==
    /\ phase = "unwound"
    /\ ret \in ProcessingResult
    /\ request' = set_context_value(request, "final_result", ret)
    /\ phase' = "returned"
    /\ UNCHANGED <<cur, ret, db, calls, events, invoked, before, answer>>
    /\ UNCHANGED pipelineframe

\* make_donation after process_donation returned
make_donation_answer(rq) == IF has_errors(rq) THEN "failure" ELSE "success"

MakeDonationAnswer ==
    /\ phase = "returned"
    /\ answer' = make_donation_answer(request)
    /\ phase' = "answered"
    /\ UNCHANGED <<cur, ret, request, db, calls, events, invoked, before>>
    /\ UNCHANGED pipelineframe

Next ==
    \/ Submit
    \/ Validation
    \/ DuplicateCheck
    \/ FraudDetection
    \/ PaymentProcessing
    \/ DatabaseStorage
    \/ CampaignUpdate
    \/ Notification
    \/ ProcessDonationReturn
    \/ MakeDonationAnswer

Spec == Init /\ [][Next]_vars

\* the pipeline with the donor-history checks of fraud detection overridden
NextSignals ==
    \/ Submit
    \/ Validation
    \/ DuplicateCheck
    \/ FraudDetectionHooked
    \/ PaymentProcessing
    \/ DatabaseStorage
    \/ CampaignUpdate
    \/ Notification
    \/ ProcessDonationReturn
    \/ MakeDonationAnswer

SpecSignals == Init /\ [][NextSignals]_vars

\* DonationHandler.handle over the pipeline's chain with _process left
\* abstract: any handler may return any ProcessingResult or raise
SubmitSample ==
    /\ phase = "idle"
    /\ request' = [EmptyRequest EXCEPT !.donation.amount = 10000,
                                       !.campaign = db.campaign]
    /\ phase' = "running"
    /\ cur' = 1
    /\ before' = db.campaign
    /\ UNCHANGED <<ret, db, calls, events, invoked, answer>>
    /\ UNCHANGED pipelineframe

AbstractHandler ==
    /\ phase = "running" /\ cur \in 1..ChainLast
    /\ \E r \in ProcessingResult \cup {RAISE} : Handle(cur, r, request)
    /\ UNCHANGED <<db, calls, events, before, answer>>
    /\ UNCHANGED pipelineframe

NextDispatch ==
    \/ SubmitSample
    \/ AbstractHandler
    \/ ProcessDonationReturn
    \/ MakeDonationAnswer

SpecDispatch == Init /\ [][NextDispatch]_vars

-----------------------------------------------------------------------------
(* Calls on the cache *)

\* keys, values and TTLs of the calls made directly on the cache
RawKeys == {"k1", "k2"}
RawValues == {"v1", "v2"}
TTLs == {0, 300, 600}

Tick ==
    /\ now < MaxTime
    /\ now' = now + TickSeconds
    /\ UNCHANGED <<cache, written, store, lastop, ops>>
    /\ UNCHANGED cacheframe

Set ==
    /\ \E k \in RawKeys, v \in RawValues, ttl \in TTLs :
          /\ cache' = cache_set(cache, k, v, ttl, now)
          /\ written' = [x \in DOMAIN written \cup {k} |->
                            IF x = k THEN [value |-> v, at |-> now, ttl |-> ttl]
                            ELSE written[x]]
          /\ lastop' = [Call("set", k) EXCEPT !.value = v]
    /\ UNCHANGED <<now, store, ops>>
    /\ UNCHANGED cacheframe

Get ==
    /\ \E k \in RawKeys :
          LET g == cache_get(cache, k, now) IN
          /\ cache' = g.cache
          /\ lastop' = [Call("get", k) EXCEPT !.found = g.found, !.value = g.value]
    /\ UNCHANGED <<now, written, store, ops>>
    /\ UNCHANGED cacheframe

Delete ==
    /\ \E k \in RawKeys :
          /\ cache' = cache_delete(cache, k)
          /\ written' = Without(written, k)
          /\ lastop' = Call("delete", k)
    /\ UNCHANGED <<now, store, ops>>
    /\ UNCHANGED cacheframe

Clear ==
    /\ cache' = cache_clear(cache)
    /\ written' = EmptyCache
    /\ lastop' = Call("clear", "none")
    /\ UNCHANGED <<now, store, ops>>
    /\ UNCHANGED cacheframe

Exists ==
    /\ \E k \in RawKeys :
          LET e == cache_exists(cache, k, now) IN
          /\ cache' = e.cache
          /\ lastop' = [Call("exists", k) EXCEPT !.found = e.found]
    /\ UNCHANGED <<now, written, store, ops>>
    /\ UNCHANGED cacheframe

NextTTLCache ==
    \/ Tick
    \/ Set
    \/ Get
    \/ Delete
    \/ Clear
    \/ Exists

\* the state in which the cache and the proxies are called: no donation is
\* being processed
InitProxies ==
    /\ Init
    /\ db.campaign = [status |-> "active", ended |-> FALSE, goal_amount |-> 100000,
                      current_amount |-> 0, donation_count |-> 0]

\* the cache on its own, called directly
SpecTTLCache == InitProxies /\ [][NextTTLCache]_vars

-----------------------------------------------------------------------------
(* CachedCampaignRepositoryProxy (proxy.py) over a wrapped campaign repository *)

Creators == {"u1", "u2"}

\* default_ttl of the campaign proxy, in seconds
default_ttl == 600

\* the limit and status filters of find_all, as str() prints them
Limits == {"None", "1"}
StatusFilters == {"None", "active"}

\* the keyword arguments of a find_all call, in the order the caller wrote them
FilterOrders ==
    { <<<<"limit", l>>, <<"status", st>>>> : l \in Limits, st \in StatusFilters }
    \cup { <<<<"status", st>>, <<"limit", l>>>> : l \in Limits, st \in StatusFilters }

\* the value bound to parameter name by a call with keyword arguments given
Bound(given, name) == (CHOOSE i \in 1..Len(given) : given[i][1] = name)

ValueOf(given, name) == given[Bound(given, name)][2]

\* the campaign object of a stored document, Campaign.to_dict and
\* Campaign.from_dict
CampaignOf(st, id) ==
    [campaign_id |-> id, creator_id |-> st[id].creator_id,
     goal_amount |-> st[id].goal_amount, current_amount |-> st[id].current_amount,
     donation_count |-> st[id].donation_count, status |-> st[id].status]

to_dict(campaign) ==
    [_id |-> campaign.campaign_id, creator_id |-> campaign.creator_id,
     goal_amount |-> campaign.goal_amount, current_amount |-> campaign.current_amount,
     donation_count |-> campaign.donation_count, status |-> campaign.status]

from_dict(data) ==
    [campaign_id |-> data._id, creator_id |-> data.creator_id,
     goal_amount |-> data.goal_amount, current_amount |-> data.current_amount,
     donation_count |-> data.donation_count, status |-> data.status]

\* the document update_one / insert_one writes for a campaign
DocumentOf(campaign) ==
    [exists |-> TRUE, creator_id |-> campaign.creator_id,
     goal_amount |-> campaign.goal_amount, current_amount |-> campaign.current_amount,
     donation_count |-> campaign.donation_count, status |-> campaign.status]

\* the wrapped repository's reads: the lists it may return (a list is a set
\* here, its order is not modelled; find_by_id returns {} for None)
repo_find_by_id(st, id) == IF st[id].exists THEN {CampaignOf(st, id)} ELSE {}

Matching(st, status) ==
    { CampaignOf(st, id) : id \in { i \in CampaignIds :
          st[i].exists /\ (status = "None" \/ st[i].status = status) } }

repo_find_all(st, limit, status) ==
    IF limit = "None" \/ Matching(st, status) = {}
    THEN { Matching(st, status) }
    ELSE { {x} : x \in Matching(st, status) }

repo_find_by_creator(st, creator_id) ==
    { CampaignOf(st, id) : id \in { i \in CampaignIds :
          st[i].exists /\ st[i].creator_id = creator_id } }

\* "_".join(key_parts)
RECURSIVE JoinParts(_)
JoinParts(parts) ==
    IF Len(parts) = 1 THEN parts[1]
    ELSE parts[1] \o "_" \o JoinParts(Tail(parts))

\* sorted(kwargs.items()) for the keyword names in use: "limit" < "status"
sorted_items(kwargs) ==
    SelectSeq(kwargs, LAMBDA p : p[1] = "limit")
    \o SelectSeq(kwargs, LAMBDA p : p[1] = "status")

\* CachedRepositoryProxy._generate_cache_key for string arguments
generate_cache_key(operation, args, kwargs) ==
    LET items == sorted_items(kwargs)
    IN JoinParts(<<operation>> \o args
                 \o [i \in 1..Len(items) |-> items[i][1] \o ":" \o items[i][2]])

\* a _cache_result that stores nothing
cache_result_skip(c, key, result, is_list, t) == c

\* CachedRepositoryProxy._cache_result: the cache after the result is stored
cache_result(c, key, result, is_list, t) ==
    cache_set(c, key, [list |-> is_list, dicts |-> { to_dict(x) : x \in result }],
              default_ttl, t)

\* CachedRepositoryProxy._get_cached_result: hit or miss, the objects
\* materialised from the snapshot, and the cache afterwards
get_cached_result(c, key, t) ==
    LET g == cache_get(c, key, t)
    IN [hit |-> g.found,
        result |-> IF g.found THEN { from_dict(d) : d \in g.value.dicts } ELSE {},
        cache |-> g.cache]

\* pattern in key
Contains(pattern, key) ==
    \E i \in 1..(Len(key) - Len(pattern) + 1) :
        SubSeq(key, i, i + Len(pattern) - 1) = pattern

\* an invalidation that deletes only the key equal to the pattern
invalidate_cache_exact(c, pattern) ==
    [k \in { x \in DOMAIN c : x # pattern } |-> c[k]]

\* CachedRepositoryProxy.invalidate_cache_pattern: the cache afterwards
invalidate_cache_pattern(c, pattern) ==
    [k \in { x \in DOMAIN c : ~Contains(pattern, x) } |-> c[k]]

\* a cached read: on a hit the snapshot is returned; on a miss the wrapped
\* repository is called, it raises or returns one of answers, and the answer is
\* stored when cacheable
ProxyRead(op, key, args, is_list, answers) ==
    LET g == get_cached_result(cache, key, now)
        c == [Call(op, key) EXCEPT !.args = args]
    IN IF g.hit
       THEN /\ cache' = g.cache
            /\ lastop' = [c EXCEPT !.hit = TRUE, !.result = g.result]
       ELSE \/ /\ cache' = g.cache
               /\ lastop' = [c EXCEPT !.delegated = 1, !.raised = TRUE,
                                      !.wrapped_raised = TRUE]
            \/ \E given \in answers :
                  /\ cache' = IF is_list \/ given # {}
                              THEN cache_result(g.cache, key, given, is_list, now)
                              ELSE g.cache
                  /\ lastop' = [c EXCEPT !.delegated = 1, !.wrapped = given,
                                         !.result = given]

FindAll ==
    /\ ops < MaxOps
    /\ \E given \in FilterOrders :
          LET limit == ValueOf(given, "limit")
              status == ValueOf(given, "status")
          IN ProxyRead("find_all",
                       generate_cache_key("find_all", << >>,
                           <<<<"limit", limit>>, <<"status", status>>>>),
                       given, TRUE, repo_find_all(store, limit, status))
    /\ ops' = ops + 1
    /\ UNCHANGED <<now, written, store>>
    /\ UNCHANGED cacheframe

FindById ==
    /\ ops < MaxOps
    /\ \E campaign_id \in CampaignIds :
          ProxyRead("find_by_id",
                    generate_cache_key("find_by_id", <<campaign_id>>, << >>),
                    <<campaign_id>>, FALSE, { repo_find_by_id(store, campaign_id) })
    /\ ops' = ops + 1
    /\ UNCHANGED <<now, written, store>>
    /\ UNCHANGED cacheframe

FindByCreator ==
    /\ ops < MaxOps
    /\ \E creator_id \in Creators :
          ProxyRead("find_by_creator",
                    generate_cache_key("find_by_creator", <<creator_id>>, << >>),
                    <<creator_id>>, TRUE, { repo_find_by_creator(store, creator_id) })
    /\ ops' = ops + 1
    /\ UNCHANGED <<now, written, store>>
    /\ UNCHANGED cacheframe

\* the campaigns a caller passes to create and update
NewCampaigns ==
    { [campaign_id |-> id, creator_id |-> u, goal_amount |-> GoalAmount,
       current_amount |-> 0, donation_count |-> 0, status |-> "active"] :
      id \in CampaignIds, u \in Creators }

\* an edit keeps the campaign's creator and sets its status
Edits ==
    { [campaign_id |-> id, creator_id |-> store[id].creator_id,
       goal_amount |-> GoalAmount, current_amount |-> store[id].current_amount,
       donation_count |-> store[id].donation_count, status |-> st] :
      id \in CampaignIds, st \in {"active", "paused"} }

\* create: the wrapped repository raises (always for an id in use) or inserts;
\* then the find_all keys are invalidated
Create ==
    /\ ops < MaxOps
    /\ \E campaign \in NewCampaigns :
          LET c == [Call("create", "none") EXCEPT !.target = campaign.campaign_id,
                                                  !.args = <<campaign.creator_id>>]
          IN \/ /\ lastop' = [c EXCEPT !.raised = TRUE, !.wrapped_raised = TRUE]
                /\ UNCHANGED <<cache, store>>
             \/ /\ ~store[campaign.campaign_id].exists
                /\ store' = [store EXCEPT ![campaign.campaign_id] = DocumentOf(campaign)]
                /\ cache' = invalidate_cache_pattern(cache, "find_all")
                /\ lastop' = [c EXCEPT !.wrote = TRUE]
    /\ ops' = ops + 1
    /\ UNCHANGED <<now, written>>
    /\ UNCHANGED cacheframe

\* update: the wrapped repository raises, or writes the document and returns
\* True, or matches no document and returns False; then campaign.id is read
\* (has_id: the object has that attribute) and the keys are invalidated
Update ==
    /\ ops < MaxOps
    /\ \E campaign \in Edits, has_id \in BOOLEAN :
          LET id == campaign.campaign_id
              c == [Call("update", "none") EXCEPT !.target = id,
                                                  !.args = <<campaign.creator_id>>]
              ok == store[id].exists
          IN \/ /\ lastop' = [c EXCEPT !.raised = TRUE, !.wrapped_raised = TRUE]
                /\ UNCHANGED <<cache, store>>
             \/ /\ store' = IF ok THEN [store EXCEPT ![id] = DocumentOf(campaign)]
                            ELSE store
                /\ IF has_id
                   THEN /\ cache' = invalidate_cache_pattern(
                                        invalidate_cache_pattern(cache,
                                            "find_by_id_" \o id),
                                        "find_all")
                        /\ lastop' = [c EXCEPT !.wrote = ok]
                   ELSE /\ cache' = cache
                        /\ lastop' = [c EXCEPT !.wrote = ok, !.raised = TRUE]
    /\ ops' = ops + 1
    /\ UNCHANGED <<now, written>>
    /\ UNCHANGED cacheframe

\* delete: the wrapped repository raises, or deletes and returns True, or finds
\* nothing and returns False; the keys are invalidated only on True
DeleteCampaign ==
    /\ ops < MaxOps
    /\ \E id \in CampaignIds :
          LET c == [Call("delete_campaign", "none") EXCEPT
                        !.target = id, !.args = <<store[id].creator_id>>]
          IN \/ /\ lastop' = [c EXCEPT !.raised = TRUE, !.wrapped_raised = TRUE]
                /\ UNCHANGED <<cache, store>>
             \/ /\ store[id].exists
                /\ store' = [store EXCEPT ![id].exists = FALSE]
                /\ cache' = invalidate_cache_pattern(
                                invalidate_cache_pattern(cache, "find_by_id_" \o id),
                                "find_all")
                /\ lastop' = [c EXCEPT !.wrote = TRUE]
             \/ /\ ~store[id].exists
                /\ lastop' = c
                /\ UNCHANGED <<cache, store>>
    /\ ops' = ops + 1
    /\ UNCHANGED <<now, written>>
    /\ UNCHANGED cacheframe

\* the amount of the donations made through the facade, in cents

\* DonationSystemFacade.make_donation for a run in which every stage succeeds:
\* the campaign is read through the cached proxy, the pipeline adds the
\* donation to that object and CampaignUpdateHandler writes it with the
\* campaign repository the facade gave the pipeline, which is the wrapped
\* repository itself
MakeDonationCached ==
    /\ ops < MaxOps
    /\ \E id \in CampaignIds :
          LET key == generate_cache_key("find_by_id", <<id>>, << >>)
              g == get_cached_result(cache, key, now)
              found == IF g.hit THEN g.result ELSE repo_find_by_id(store, id)
              read == IF g.hit \/ found = {} THEN g.cache
                      ELSE cache_result(g.cache, key, found, FALSE, now)
          IN /\ found # {}
             /\ \E campaign \in found :
                   /\ campaign.status = "active"
                   /\ store' = IF store[id].exists
                               THEN [store EXCEPT ![id] = DocumentOf(
                                         AddToCampaign(campaign, DonationAmount))]
                               ELSE store
                   /\ lastop' = [Call("make_donation", key) EXCEPT
                                     !.target = id, !.hit = g.hit,
                                     !.wrote = store[id].exists,
                                     !.stored = store[id]]
             /\ cache' = read
    /\ ops' = ops + 1
    /\ UNCHANGED <<now, written>>
    /\ UNCHANGED cacheframe

NextCachedRepository ==
    \/ Tick
    \/ FindAll
    \/ FindById
    \/ FindByCreator
    \/ Create
    \/ Update
    \/ DeleteCampaign
    \/ MakeDonationCached

\* the cached campaign repository as the facade uses it
SpecCachedRepository == InitProxies /\ [][NextCachedRepository]_vars

-----------------------------------------------------------------------------
(* AccessControlProxy *)

\* hasattr(resource, attr); None has no attribute
hasattr(resource, attr) == resource[attr] # NoAttr

\* update and delete are open to every authenticated caller
check_permission_any_owner(context, operation, resource) ==
    IF context = NoUser
    THEN [allowed |-> FALSE, reason |-> "No user context"]
    ELSE [allowed |-> TRUE, reason |-> "Owner access"]

\* _check_permission: (allowed, reason)
check_permission(context, operation, resource) ==
    IF context = NoUser
    THEN [allowed |-> FALSE, reason |-> "No user context"]
    ELSE IF context.role = "admin"
    THEN [allowed |-> TRUE, reason |-> "Admin access"]
    ELSE IF operation \in {"read", "find", "get"}
    THEN [allowed |-> TRUE, reason |-> "Read access allowed"]
    ELSE IF operation \in {"create", "update", "delete"}
    THEN IF operation = "create"
         THEN [allowed |-> TRUE, reason |-> "Authenticated create access"]
         ELSE IF hasattr(resource, "creator_id") /\ resource.creator_id = context.id
         THEN [allowed |-> TRUE, reason |-> "Owner access"]
         ELSE IF hasattr(resource, "donor_id") /\ resource.donor_id = context.id
         THEN [allowed |-> TRUE, reason |-> "Donor access"]
         ELSE [allowed |-> FALSE, reason |-> "Not owner or admin"]
    ELSE [allowed |-> FALSE, reason |-> "Unknown operation"]

\* _log_access; the timestamp of the entry is left out
log_access(log, context, operation, resource, allowed, reason) ==
    Append(log, [user_id |-> IF context # NoUser THEN context.id ELSE "None",
                 user_role |-> IF context # NoUser THEN context.role ELSE "None",
                 operation |-> operation,
                 resource |-> resource,
                 allowed |-> allowed,
                 reason |-> reason])

\* the decision is logged and the call delegated whatever the decision
Controlled_always_delegates(op, operation, target, checked, logged, outcomes) ==
    LET p == check_permission(user_context, operation, checked)
        call == [AccessCall(op) EXCEPT !.target = target, !.checked = checked,
                    !.logged = logged, !.decided = TRUE,
                    !.allowed = p.allowed, !.reason = p.reason]
    IN  /\ access_log' = log_access(access_log, user_context, op, logged,
                                    p.allowed, p.reason)
        /\ \/ /\ resources' = resources
              /\ access' = [call EXCEPT !.delegated = 1, !.wrapped_raised = TRUE]
           \/ /\ resources' \in outcomes
              /\ access' = [call EXCEPT !.delegated = 1]

\* the body shared by the five controlled operations: check, log, raise
\* PermissionError("Access denied: <reason>") on denial, otherwise delegate;
\* the wrapped call raises or leaves the repository as one of outcomes
Controlled(op, operation, target, checked, logged, outcomes) ==
    LET p == check_permission(user_context, operation, checked)
        call == [AccessCall(op) EXCEPT !.target = target, !.checked = checked,
                    !.logged = logged, !.decided = TRUE,
                    !.allowed = p.allowed, !.reason = p.reason]
    IN  /\ access_log' = log_access(access_log, user_context, op, logged,
                                    p.allowed, p.reason)
        /\ IF ~p.allowed
           THEN /\ resources' = resources
                /\ access' = [call EXCEPT !.denied = TRUE,
                                 !.error = "Access denied: " \o p.reason]
           ELSE \/ /\ resources' = resources
                   /\ access' = [call EXCEPT !.delegated = 1,
                                             !.wrapped_raised = TRUE]
                \/ /\ resources' \in outcomes
                   /\ access' = [call EXCEPT !.delegated = 1]

\* set_user_context(user)
SetUserContext ==
    /\ \E user \in Users :
          /\ user # user_context
          /\ user_context' = user
    /\ UNCHANGED <<access_log, resources, access, attempts>>
    /\ UNCHANGED accessframe

\* find_all()
AccessFindAll ==
    /\ attempts < MaxCalls
    /\ attempts' = attempts + 1
    /\ Controlled("find_all", "read", "all", NoResource, "all", {resources})
    /\ UNCHANGED user_context
    /\ UNCHANGED accessframe

\* find_by_id(resource_id)
AccessFindById ==
    /\ attempts < MaxCalls
    /\ attempts' = attempts + 1
    /\ \E resource_id \in ResourceIds :
          Controlled("find_by_id", "read", resource_id, NoResource, resource_id,
                     {resources})
    /\ UNCHANGED user_context
    /\ UNCHANGED accessframe

\* create(resource); the entry names the resource by its class; an id already
\* stored makes the wrapped create raise
AccessCreate ==
    /\ attempts < MaxCalls
    /\ attempts' = attempts + 1
    /\ \E resource \in Resources :
          Controlled("create", "create", resource.id, resource,
                     IF hasattr(resource, "creator_id") THEN "Campaign" ELSE "Donation",
                     IF resources[resource.id] = NoResource
                     THEN {[resources EXCEPT ![resource.id] = resource]}
                     ELSE {})
    /\ UNCHANGED user_context
    /\ UNCHANGED accessframe

\* update(resource): the permission is checked on the object handed in; the
\* entry names it by getattr(resource, 'id', 'unknown') (has_id: the object has
\* the attribute); the wrapped update replaces the stored document of that id
AccessUpdate ==
    /\ attempts < MaxCalls
    /\ attempts' = attempts + 1
    /\ \E resource \in Resources, has_id \in BOOLEAN :
          Controlled("update", "update", resource.id, resource,
                     IF has_id THEN resource.id ELSE "unknown",
                     { IF resources[resource.id] = NoResource
                       THEN resources
                       ELSE [resources EXCEPT ![resource.id] = resource] })
    /\ UNCHANGED user_context
    /\ UNCHANGED accessframe

\* delete(resource_id): the stored resource is fetched first; when that lookup
\* raises the call ends there, otherwise the permission is checked on what it
\* returned (None for an unknown id)
AccessDelete ==
    /\ attempts < MaxCalls
    /\ attempts' = attempts + 1
    /\ \E resource_id \in ResourceIds :
          \/ /\ access' = [AccessCall("delete") EXCEPT !.target = resource_id,
                              !.lookup_raised = TRUE]
             /\ UNCHANGED <<access_log, resources>>
          \/ Controlled("delete", "delete", resource_id, resources[resource_id],
                        resource_id,
                        {[resources EXCEPT ![resource_id] = NoResource]})
    /\ UNCHANGED user_context
    /\ UNCHANGED accessframe

NextAccessControl ==
    \/ SetUserContext
    \/ AccessFindAll
    \/ AccessFindById
    \/ AccessCreate
    \/ AccessUpdate
    \/ AccessDelete

SpecAccessControl == InitProxies /\ [][NextAccessControl]_vars

-----------------------------------------------------------------------------
(* Campaign: status management and donation tracking *)

\* activate(): (the campaign afterwards, the value returned)
activate(c, t) ==
    IF c.status = "draft"
    THEN [campaign |-> [c EXCEPT !.status = "active",
                                 !.start_date = IF c.start_date = NoDate
                                                THEN t ELSE c.start_date],
          returned |-> TRUE]
    ELSE [campaign |-> c, returned |-> FALSE]

\* pause()
pause(c, t) ==
    IF c.status = "active"
    THEN [campaign |-> [c EXCEPT !.status = "paused"], returned |-> TRUE]
    ELSE [campaign |-> c, returned |-> FALSE]

\* resume()
resume(c, t) ==
    IF c.status = "paused"
    THEN [campaign |-> [c EXCEPT !.status = "active"], returned |-> TRUE]
    ELSE [campaign |-> c, returned |-> FALSE]

\* complete()
complete(c, t) ==
    IF c.status \in {"active", "paused"}
    THEN [campaign |-> [c EXCEPT !.status = "completed"], returned |-> TRUE]
    ELSE [campaign |-> c, returned |-> FALSE]

\* cancel() that cancels a completed campaign too
cancel_completed_too(c, t) ==
    [campaign |-> [c EXCEPT !.status = "cancelled"], returned |-> TRUE]

\* cancel()
cancel(c, t) ==
    IF c.status # "completed"
    THEN [campaign |-> [c EXCEPT !.status = "cancelled"], returned |-> TRUE]
    ELSE [campaign |-> c, returned |-> FALSE]

\* is_completed
is_completed(c) == c.current_amount >= c.goal_amount

\* add_donation(amount, donor_id); it returns None
add_donation(c, amount, t) ==
    LET added == [c EXCEPT !.current_amount = @ + amount,
                           !.donation_count = @ + 1]
    IN  [campaign |-> IF is_completed(added) /\ added.status = "active"
                      THEN complete(added, t).campaign
                      ELSE added,
         returned |-> FALSE]

\* the record of one method call on the campaign
Called(op, returned) ==
    [op |-> op, before |-> campaign_obj, at |-> now, returned |-> returned]

Activate ==
    /\ campaign_obj' = activate(campaign_obj, now).campaign
    /\ campaign_op' = Called("activate", activate(campaign_obj, now).returned)
    /\ UNCHANGED campaignframe

Pause ==
    /\ campaign_obj' = pause(campaign_obj, now).campaign
    /\ campaign_op' = Called("pause", pause(campaign_obj, now).returned)
    /\ UNCHANGED campaignframe

Resume ==
    /\ campaign_obj' = resume(campaign_obj, now).campaign
    /\ campaign_op' = Called("resume", resume(campaign_obj, now).returned)
    /\ UNCHANGED campaignframe

Complete ==
    /\ campaign_obj' = complete(campaign_obj, now).campaign
    /\ campaign_op' = Called("complete", complete(campaign_obj, now).returned)
    /\ UNCHANGED campaignframe

Cancel ==
    /\ campaign_obj' = cancel(campaign_obj, now).campaign
    /\ campaign_op' = Called("cancel", cancel(campaign_obj, now).returned)
    /\ UNCHANGED campaignframe

AddDonation ==
    /\ campaign_obj.donation_count < MaxDonations
    /\ campaign_obj' = add_donation(campaign_obj, DonationAmount, now).campaign
    /\ campaign_op' = Called("add_donation", FALSE)
    /\ UNCHANGED campaignframe

\* set_dates(start_date=now)
SetDates ==
    /\ campaign_obj.start_date # now
    /\ campaign_obj' = [campaign_obj EXCEPT !.start_date = now]
    /\ campaign_op' = Called("set_dates", FALSE)
    /\ UNCHANGED campaignframe

\* the clock, between calls on the campaign
CampaignClock ==
    /\ now < MaxTime
    /\ now' = now + TickSeconds
    /\ UNCHANGED <<cache, written, store, lastop, ops>>
    /\ UNCHANGED cacheframe

NextCampaign ==
    \/ Activate
    \/ Pause
    \/ Resume
    \/ Complete
    \/ Cancel
    \/ AddDonation
    \/ SetDates
    \/ CampaignClock

SpecCampaign == InitProxies /\ [][NextCampaign]_vars

-----------------------------------------------------------------------------
(* Donation: receipt and lifecycle *)

\* a refund test that forgets the status
can_be_refunded_unrefunded(d) == d.status # "pending" /\ d.status # "failed"

\* can_be_refunded
can_be_refunded(d) == d.status = "completed" /\ d.refunded_at = NoDate

\* a receipt id made anew at every call, from the status of the moment
generate_receipt_id_anew(d) ==
    LET made == "ORD-" \o strftime(d.created_at) \o "-" \o IdPart \o "-" \o d.status
    IN  [donation |-> [d EXCEPT !.receipt_id = made], returned |-> made]

\* generate_receipt_id(): (the donation afterwards, the id returned)
generate_receipt_id(d) ==
    IF d.receipt_id = "None"
    THEN LET made == "ORD-" \o strftime(d.created_at) \o "-" \o IdPart
         IN  [donation |-> [d EXCEPT !.receipt_id = made], returned |-> made]
    ELSE [donation |-> d, returned |-> d.receipt_id]

\* complete_donation(transaction_id) at time t
complete_donation(d, transaction_id, t) ==
    IF d.status = "pending"
    THEN [donation |->
             generate_receipt_id(
                 [d EXCEPT !.status = "completed", !.completed_at = t,
                           !.transaction_id = IF transaction_id # "None"
                                              THEN transaction_id ELSE @]).donation,
          returned |-> TRUE]
    ELSE [donation |-> d, returned |-> FALSE]

\* fail_donation()
fail_donation(d) ==
    IF d.status = "pending"
    THEN [donation |-> [d EXCEPT !.status = "failed"], returned |-> TRUE]
    ELSE [donation |-> d, returned |-> FALSE]

\* refund_donation(refund_id) at time t
refund_donation(d, refund_id, t) ==
    IF can_be_refunded(d)
    THEN [donation |-> [d EXCEPT !.status = "refunded", !.refunded_at = t,
                                 !.refund_id = refund_id],
          returned |-> TRUE]
    ELSE [donation |-> d, returned |-> FALSE]

\* the record of one method call on the donation
DonationCalled(op, returned) ==
    [donation_op EXCEPT !.op = op, !.before = donation_obj, !.at = now,
                        !.returned = returned]

GenerateReceiptId ==
    LET g == generate_receipt_id(donation_obj)
    IN  /\ donation_obj' = g.donation
        /\ donation_op' = [DonationCalled("generate_receipt_id", g.returned)
                               EXCEPT !.issued = @ \cup {g.returned},
                                      !.direct = TRUE]
        /\ UNCHANGED donationframe

\* get_receipt_data(): the receipt_id entry of the dictionary it returns
GetReceiptData ==
    LET g == generate_receipt_id(donation_obj)
    IN  /\ donation_obj' = g.donation
        /\ donation_op' = [DonationCalled("get_receipt_data", g.returned)
                               EXCEPT !.issued = @ \cup {g.returned}]
        /\ UNCHANGED donationframe

\* get_display_info(): the status entry of the dictionary it returns
GetDisplayInfo ==
    /\ donation_obj' = donation_obj
    /\ donation_op' = DonationCalled("get_display_info", donation_obj.status)
    /\ UNCHANGED donationframe

CompleteDonation ==
    \E transaction_id \in {"None", "txn"} :
        LET c == complete_donation(donation_obj, transaction_id, now)
        IN  /\ donation_obj' = c.donation
            /\ donation_op' = DonationCalled("complete_donation", c.returned)
            /\ UNCHANGED donationframe

FailDonation ==
    LET f == fail_donation(donation_obj)
    IN  /\ donation_obj' = f.donation
        /\ donation_op' = DonationCalled("fail_donation", f.returned)
        /\ UNCHANGED donationframe

RefundDonation ==
    \E refund_id \in {"None", "rf1"} :
        LET r == refund_donation(donation_obj, refund_id, now)
        IN  /\ donation_obj' = r.donation
            /\ donation_op' = DonationCalled("refund_donation", r.returned)
            /\ UNCHANGED donationframe

\* the clock, between calls on the donation
DonationClock ==
    /\ now < MaxTime
    /\ now' = now + TickSeconds
    /\ UNCHANGED <<cache, written, store, lastop, ops>>
    /\ UNCHANGED cacheframe

NextDonation ==
    \/ GenerateReceiptId
    \/ GetReceiptData
    \/ GetDisplayInfo
    \/ CompleteDonation
    \/ FailDonation
    \/ RefundDonation
    \/ DonationClock

SpecDonation == InitProxies /\ [][NextDonation]_vars

-----------------------------------------------------------------------------
(* Subject, DonationEventManager and CampaignUpdateObserver *)

\* the observers attach and detach are called with: the campaign updater and
\* an observer of another class, whose update may raise
Attachable == {"campaign", "custom"}

\* the donation the events are about
TheDonation == [donation_id |-> "d1", campaign_id |-> "c1", amount |-> DonationAmount]

DonationData == {TheDonation}

IsAttached(obs, observer) == \E i \in 1..Len(obs) : obs[i] = observer

\* attach(observer)
attach(obs, observer) ==
    IF ~IsAttached(obs, observer) THEN Append(obs, observer) ELSE obs

\* detach(observer)
detach(obs, observer) ==
    SelectSeq(obs, LAMBDA o : o # observer)

RECURSIVE notify_until_fault(_, _, _)
\* a notify that lets the first fault end the loop
notify_until_fault(obs, i, raising) ==
    IF i > Len(obs)
    THEN << >>
    ELSE IF obs[i] \in raising
    THEN << [observer |-> obs[i], raised |-> TRUE] >>
    ELSE << [observer |-> obs[i], raised |-> FALSE] >>
         \o notify_until_fault(obs, i + 1, raising)

RECURSIVE notify(_, _, _)
\* notify(event_type, data) from the i-th observer on: the update calls made,
\* in order; raising: the observers whose update raises
notify(obs, i, raising) ==
    IF i > Len(obs)
    THEN << >>
    ELSE << [observer |-> obs[i], raised |-> obs[i] \in raising] >>
         \o notify(obs, i + 1, raising)

\* a log that is never cut
log_event_uncut(log, entry) == Append(log, entry)

\* _log_event(event_type, data)
log_event(log, entry) ==
    LET appended == Append(log, entry)
    IN  IF Len(appended) > event_log_limit
        THEN SubSeq(appended, Len(appended) - event_log_limit + 1, Len(appended))
        ELSE appended

Max(a, b) == IF a >= b THEN a ELSE b

\* CampaignUpdateObserver._update_campaign_totals: the store afterwards; the
\* campaign_goal_reached event it may raise goes to a new DonationEventManager
\* without observers
update_campaign_totals(st, data, t) ==
    IF st[data.campaign_id].exists
    THEN [st EXCEPT ![data.campaign_id] =
             DocumentOf(add_donation(CampaignOf(st, data.campaign_id),
                                     data.amount, t).campaign)]
    ELSE st

\* CampaignUpdateObserver._handle_donation_refund
handle_donation_refund(st, data) ==
    IF st[data.campaign_id].exists
    THEN [st EXCEPT ![data.campaign_id].current_amount = Max(0, @ - data.amount),
                    ![data.campaign_id].donation_count = Max(0, @ - 1)]
    ELSE st

\* CampaignUpdateObserver.update; failed: the repository raised, which update
\* catches and logs
campaign_observer_update(st, event_type, data, failed, t) ==
    IF failed THEN st
    ELSE IF event_type = "donation_completed" THEN update_campaign_totals(st, data, t)
    ELSE IF event_type = "donation_refunded" THEN handle_donation_refund(st, data)
    ELSE st

Attach ==
    /\ \E observer \in Attachable : observers' = attach(observers, observer)
    /\ UNCHANGED <<event_log, dispatch_count, notified, reconciled, store>>
    /\ UNCHANGED observerframe

Detach ==
    /\ \E observer \in Attachable : observers' = detach(observers, observer)
    /\ UNCHANGED <<event_log, dispatch_count, notified, reconciled, store>>
    /\ UNCHANGED observerframe

\* the body of donation_created, donation_completed, donation_refunded and
\* campaign_goal_reached: _log_event, then notify
Dispatch(event_type, data, raising, failed) ==
    LET entry == [event_type |-> event_type, serial |-> dispatch_count + 1,
                  donation_id |-> data.donation_id, amount |-> data.amount]
        logged == log_event(event_log, entry)
        calls_made == notify(observers, 1, raising)
        reached == \E i \in 1..Len(calls_made) : calls_made[i].observer = "campaign"
    IN  /\ event_log' = logged
        /\ dispatch_count' = dispatch_count + 1
        /\ store' = IF reached
                    THEN campaign_observer_update(store, event_type, data, failed, now)
                    ELSE store
        /\ reconciled' = IF reached /\ ~failed /\ event_type = "donation_refunded"
                         THEN reconciled \cup {data.donation_id}
                         ELSE reconciled
        /\ notified' = [event_type |-> event_type, serial |-> dispatch_count + 1,
                        donation_id |-> data.donation_id,
                        attached |-> observers, deliveries |-> calls_made,
                        last_logged |-> logged[Len(logged)].serial,
                        raised |-> FALSE, staged |-> FALSE, kept |-> observers,
                        repeated |-> /\ event_type = "donation_refunded"
                                     /\ reached /\ ~failed
                                     /\ data.donation_id \in reconciled,
                        current_amount |-> store[data.campaign_id].current_amount,
                        donation_count |-> store[data.campaign_id].donation_count]
        /\ UNCHANGED observers
        /\ UNCHANGED observerframe

DonationCreated ==
    /\ dispatch_count < MaxEvents
    /\ \E data \in DonationData, raising \in SUBSET {"custom"} :
          Dispatch("donation_created", data, raising, FALSE)

DonationCompleted ==
    /\ dispatch_count < MaxEvents
    /\ \E data \in DonationData, raising \in SUBSET {"custom"}, failed \in BOOLEAN :
          Dispatch("donation_completed", data, raising, failed)

DonationRefunded ==
    /\ dispatch_count < MaxEvents
    /\ \E data \in DonationData, raising \in SUBSET {"custom"}, failed \in BOOLEAN :
          Dispatch("donation_refunded", data, raising, failed)

CampaignGoalReached ==
    /\ dispatch_count < MaxEvents
    /\ \E data \in DonationData, raising \in SUBSET {"custom"} :
          Dispatch("campaign_goal_reached", data, raising, FALSE)

NextObserver ==
    \/ Attach
    \/ Detach
    \/ DonationCreated
    \/ DonationCompleted
    \/ DonationRefunded
    \/ CampaignGoalReached

SpecObserver == InitProxies /\ [][NextObserver]_vars

\* a long run of events on the default manager: donation d1 is created,
\* completed and refunded and a goal is reached, over and over
LoggedDonationCreated ==
    /\ dispatch_count < MaxLogged /\ dispatch_count % 4 = 0
    /\ Dispatch("donation_created", TheDonation, {}, FALSE)

LoggedDonationCompleted ==
    /\ dispatch_count < MaxLogged /\ dispatch_count % 4 = 1
    /\ Dispatch("donation_completed", TheDonation, {}, FALSE)

LoggedDonationRefunded ==
    /\ dispatch_count < MaxLogged /\ dispatch_count % 4 = 2
    /\ Dispatch("donation_refunded", TheDonation, {}, FALSE)

LoggedCampaignGoalReached ==
    /\ dispatch_count < MaxLogged /\ dispatch_count % 4 = 3
    /\ Dispatch("campaign_goal_reached", TheDonation, {}, FALSE)

NextEventLog ==
    \/ LoggedDonationCreated
    \/ LoggedDonationCompleted
    \/ LoggedDonationRefunded
    \/ LoggedCampaignGoalReached

SpecEventLog == InitProxies /\ [][NextEventLog]_vars

-----------------------------------------------------------------------------
(* Concurrent runs of the pipeline on one campaign *)

\* a campaign update that adds the donation to the document as it is stored
\* at the time of the write
campaign_update_on_stored(document, snapshot, amount) ==
    AddToCampaign(document, amount)

\* what CampaignUpdateHandler hands to campaign_repository.update, which sets
\* every field of the document: the run's own campaign object with the
\* donation added
campaign_update(document, snapshot, amount) ==
    AddToCampaign(snapshot, amount)

\* make_donation reads the campaign and builds the request of a completed
\* donation; read_after: the number of updates written before this read
RunRead ==
    \E r \in RunIds, amount \in {DonationAmount, GoalAmount} :
        /\ runs[r].pc = "start"
        /\ runs' = [runs EXCEPT ![r] = [pc |-> "read", amount |-> amount,
                                        read_after |-> Len(update_order),
                                        campaign |-> db.campaign]]
        /\ UNCHANGED <<db, update_order>>
        /\ UNCHANGED raceframe

\* CampaignUpdateHandler._process of the run: the update writes the document,
\* or raises
RunUpdate ==
    \E r \in RunIds :
        /\ runs[r].pc = "read"
        /\ \/ /\ db' = [db EXCEPT !.campaign =
                           campaign_update(db.campaign, runs[r].campaign,
                                           runs[r].amount)]
              /\ update_order' = Append(update_order, r)
              /\ runs' = [runs EXCEPT ![r].pc = "updated"]
           \/ /\ runs' = [runs EXCEPT ![r].pc = "failed"]
              /\ UNCHANGED <<db, update_order>>
        /\ UNCHANGED raceframe

NextRace ==
    \/ RunRead
    \/ RunUpdate

SpecRace == InitProxies /\ [][NextRace]_vars

-----------------------------------------------------------------------------
(* Properties *)

Log == request.processing_log

Ended == phase \in {"unwound", "returned", "answered"}

Returned == phase \in {"returned", "answered"}

FinalResult == request.processing_context.final_result

\* C1: in one run the handlers execute strictly in chain order; the first
\* handler that returns Failure or Stop ends the run and no later handler is
\* invoked; a Failure is reported as Failure, a Stop as Success, and otherwise
\* the run's result is the lastop handler's result.
C1_DispatchRule ==
    /\ \A k \in 1..Len(invoked) : invoked[k] = Chain[k]
    /\ Len(Log) = Len(invoked)
    /\ \A k \in 1..Len(Log) : Log[k].handler = Chain[k]
    /\ phase = "running" => cur = Len(invoked) + 1
    /\ \A k \in 1..Len(Log) :
          Log[k].result \in {FAILURE, STOP} => k = Len(Log) /\ Ended
    /\ Ended =>
          /\ Len(Log) >= 1
          /\ LET last == Log[Len(Log)].result IN
                /\ last = FAILURE => ret = FAILURE
                /\ last = STOP => ret = SUCCESS
                /\ last \in {SUCCESS, CONTINUE} => Len(Log) = ChainLast /\ ret = last
    /\ Returned => FinalResult = ret

\* a run that the third handler stopped: reported as success, four handlers never ran
C1_Witness ==
    /\ phase = "returned"
    /\ Len(invoked) = 3
    /\ Log[3].result = STOP
    /\ FinalResult = SUCCESS

\* C2: when a handler's processing step raises, process_donation still
\* returns the request, the final result is Failure, an error naming the
\* faulting handler is on the request, and no later handler runs.
C2_FaultIsFailure ==
    /\ phase = "unwound" => ret \in ProcessingResult
    /\ \A k \in 1..Len(Log) :
          Log[k].message = "exception" =>
             /\ k = Len(Log)
             /\ Len(invoked) = k
             /\ Ended
             /\ ret = FAILURE
             /\ \E e \in 1..Len(request.errors) :
                   /\ request.errors[e].handler = Chain[k]
                   /\ request.errors[e].message = "Unexpected error in handler"
             /\ Returned => FinalResult = FAILURE

\* the fifth handler raised and the request came back with Failure
C2_Witness ==
    /\ phase = "returned"
    /\ Len(Log) = 5
    /\ Log[5].message = "exception"
    /\ FinalResult = FAILURE
    /\ request.errors[1].handler = "DatabaseStorageHandler"

\* whether handler h recorded an error / this error / a warning on the request
ErrorBy(h) == \E e \in 1..Len(request.errors) : request.errors[e].handler = h

ErrorIs(h, m) ==
    \E e \in 1..Len(request.errors) :
        request.errors[e].handler = h /\ request.errors[e].message = m

WarningBy(h) == \E w \in 1..Len(request.warnings) : request.warnings[w].handler = h

\* handler h logged result r
Logged(h, r) == \E k \in 1..Len(Log) : Log[k].handler = h /\ Log[k].result = r

\* C3: the Validation handler returns Failure iff the amount is <= 0, or the
\* amount is > 10000, or the campaign is not active, or its end date is in the
\* past, or the donor is inactive; a total beyond 1.1 x goal_amount only adds a
\* warning and the handler still returns Success; exactly 10000 passes.
C3_ValidationRules ==
    (Len(invoked) >= 1 /\ request.donation.is_number) =>
        LET a == request.donation.amount
            refused == \/ a <= 0
                       \/ a > 1000000
                       \/ before.status # "active"
                       \/ before.ended
                       \/ ~request.donor.is_active
            overage == 10 * (before.current_amount + a) > 11 * before.goal_amount
        IN /\ Log[1].handler = "ValidationHandler"
           /\ refused <=> Log[1].result = FAILURE
           /\ refused <=> ErrorBy("ValidationHandler")
           /\ refused => Len(invoked) = 1 /\ Ended /\ ret = FAILURE
           /\ ~refused => Log[1].result = SUCCESS
           /\ (~refused /\ overage) => WarningBy("ValidationHandler")
           /\ (~refused /\ ~overage) => ~WarningBy("ValidationHandler")

\* a donation of exactly 10000.00 passed validation, with the overage warning
C3_Witness ==
    /\ Len(invoked) >= 2
    /\ request.donation.amount = 1000000
    /\ Log[1].handler = "ValidationHandler"
    /\ Log[1].result = SUCCESS
    /\ WarningBy("ValidationHandler")
    /\ ~has_errors(request)

\* C4: when a run fails at Validation, the payment processor, the donation
\* repository, the campaign repository and the event bus are never invoked in
\* that run, and the processing log holds exactly one entry, from Validation,
\* with result failure.
C4_ValidationFailureStopsAll ==
    (Len(Log) >= 1 /\ Log[1].handler = "ValidationHandler" /\ Log[1].result = FAILURE) =>
        /\ calls = [payment |-> 0, create |-> 0, update |-> 0]
        /\ events = << >>
        /\ db.donations = << >>
        /\ db.campaign = before
        /\ invoked = << "ValidationHandler" >>
        /\ Len(Log) = 1
        /\ Ended

\* a donation of -5.00 was answered with a failure after Validation alone
C4_Witness ==
    /\ phase = "answered"
    /\ request.donation.amount = -500
    /\ Len(Log) = 1
    /\ Log[1].result = FAILURE
    /\ ErrorIs("ValidationHandler", "Donation amount must be greater than 0")
    /\ answer = "failure"

Score == request.processing_context.fraud_score

Reasons == request.processing_context.fraud_reasons

\* C5: the fraud score is the sum of the weights (30, 25, 20, 15, 10) of the
\* signals that fire; a score >= 70 makes FraudDetection return Failure with an
\* error; a score in [40,70) makes it return Success, adds a warning and sets
\* requires_review; a score < 40 makes it return Success with no warning and
\* no requires_review flag.
C5_FraudBanding ==
    Score >= 0 =>
        /\ Score = (IF "Large amount from new donor" \in Reasons THEN 30 ELSE 0)
                 + (IF "Multiple large donations recently" \in Reasons THEN 25 ELSE 0)
                 + (IF "Suspicious payment pattern" \in Reasons THEN 20 ELSE 0)
                 + (IF "Donation amount matches common fraud pattern" \in Reasons
                       THEN 15 ELSE 0)
                 + (IF "Rapid consecutive donations" \in Reasons THEN 10 ELSE 0)
        /\ Len(invoked) >= 3
        /\ Score >= 70 =>
              /\ Logged("FraudDetectionHandler", FAILURE)
              /\ ~Logged("FraudDetectionHandler", SUCCESS)
              /\ ErrorIs("FraudDetectionHandler", "High fraud risk")
        /\ (Score >= 40 /\ Score < 70) =>
              /\ Logged("FraudDetectionHandler", SUCCESS)
              /\ ~Logged("FraudDetectionHandler", FAILURE)
              /\ ~ErrorBy("FraudDetectionHandler")
              /\ WarningBy("FraudDetectionHandler")
              /\ request.donation.requires_review
        /\ Score < 40 =>
              /\ Logged("FraudDetectionHandler", SUCCESS)
              /\ ~Logged("FraudDetectionHandler", FAILURE)
              /\ ~ErrorBy("FraudDetectionHandler")
              /\ ~WarningBy("FraudDetectionHandler")
              /\ ~request.donation.requires_review

\* a score of exactly 40 put the donation under review
C5_Witness ==
    /\ Score = 40
    /\ request.donation.requires_review
    /\ WarningBy("FraudDetectionHandler")
    /\ Logged("FraudDetectionHandler", SUCCESS)

\* C6: whenever a run's fraud score is >= 70, the run ends with Failure at
\* FraudDetection and neither the payment processor nor the donation
\* repository is invoked in that run.
C6_FraudRejectionStops ==
    Score >= 70 =>
        /\ invoked = << "ValidationHandler", "DuplicateCheckHandler",
                        "FraudDetectionHandler" >>
        /\ Ended
        /\ ret = FAILURE
        /\ Returned => FinalResult = FAILURE
        /\ calls.payment = 0
        /\ calls.create = 0
        /\ db.donations = << >>
        /\ request.donation.transaction_id = "none"

\* a run scored 75 was answered with a failure, uncharged and unstored
C6_Witness ==
    /\ Score = 75
    /\ phase = "answered"
    /\ FinalResult = FAILURE
    /\ calls.payment = 0
    /\ db.donations = << >>

\* the payment method the run asks for, and the three ways it does not succeed
AskedMethod ==
    IF request.payment_data.method = "absent" THEN "credit_card"
    ELSE request.payment_data.method

UnsupportedMethod == AskedMethod \notin {"credit_card", "paypal", "bank_transfer"}

InvalidFields ==
    /\ ~UnsupportedMethod
    /\ \/ ~request.payment_data.complete
       \/ AskedMethod = "credit_card" /\ request.payment_data.card = "absent"

ProcessorFailure ==
    /\ ~UnsupportedMethod
    /\ ~InvalidFields
    /\ \/ AskedMethod = "credit_card" /\ request.payment_data.card = "nonstring"
       \/ AskedMethod # "credit_card" /\ request.payment_data.bad

\* C7: if the payment does not succeed (unsupported method, invalid
\* method-specific fields, or a processor-reported failure), the Payment handler
\* returns Failure with the processor's error recorded on the request, no
\* donation is persisted and no campaign total changes in that run; a donation
\* is persisted only in runs whose payment succeeded.
C7_PaymentFailure ==
    /\ Len(invoked) >= 4 =>
          /\ calls.payment = 1
          /\ (UnsupportedMethod \/ InvalidFields \/ ProcessorFailure) =>
                /\ Len(invoked) = 4
                /\ Ended
                /\ ret = FAILURE
                /\ Logged("PaymentProcessingHandler", FAILURE)
                /\ Returned => FinalResult = FAILURE
                /\ UnsupportedMethod =>
                      ErrorIs("PaymentProcessingHandler",
                              "Payment processing error: Unsupported payment method")
                /\ InvalidFields =>
                      ErrorIs("PaymentProcessingHandler",
                              "Payment failed: Invalid payment data")
                /\ ProcessorFailure =>
                      ErrorIs("PaymentProcessingHandler",
                              "Payment failed: strategy exception")
                /\ db.donations = << >>
                /\ calls.create = 0
                /\ calls.update = 0
                /\ db.campaign = before
                /\ request.campaign = before
          /\ ~(UnsupportedMethod \/ InvalidFields \/ ProcessorFailure) =>
                /\ Logged("PaymentProcessingHandler", SUCCESS)
                /\ ~ErrorBy("PaymentProcessingHandler")
    /\ db.donations # << >> =>
          /\ request.processing_context.payment_success = "true"
          /\ Logged("PaymentProcessingHandler", SUCCESS)
          /\ db.donations[1].transaction_id = "txn"

\* a PayPal payment the processor reported as failed was answered with a
\* failure and nothing was stored
C7_Witness ==
    /\ phase = "answered"
    /\ request.payment_data.method = "paypal"
    /\ ProcessorFailure
    /\ ErrorIs("PaymentProcessingHandler", "Payment failed: strategy exception")
    /\ db.donations = << >>
    /\ db.campaign = before

\* C8: a donation flagged requires_review is still charged and stored, with
\* status pending_review instead of completed; in that run the campaign's
\* current_amount, donation_count and status are unchanged and the campaign
\* repository's update is not called; only donations stored as completed move
\* campaign totals.
C8_PendingReview ==
    /\ request.donation.requires_review =>
          /\ Len(invoked) >= 4 => calls.payment = 1
          /\ (Len(invoked) >= 5 /\ ~ErrorBy("DatabaseStorageHandler")) =>
                /\ request.processing_context.payment_success = "true"
                /\ Len(db.donations) = 1
                /\ db.donations[1].status = "pending_review"
                /\ db.donations[1].transaction_id = "txn"
          /\ \A k \in 1..Len(db.donations) : db.donations[k].status # "completed"
          /\ Len(invoked) >= 6 => Logged("CampaignUpdateHandler", SUCCESS)
          /\ calls.update = 0
          /\ db.campaign = before
          /\ request.campaign = before
    /\ (phase # "idle"
          /\ (db.campaign # before \/ request.campaign # before \/ calls.update > 0)) =>
          /\ Len(db.donations) = 1
          /\ db.donations[1].status = "completed"
          /\ ~request.donation.requires_review

\* a flagged donation went through the whole chain: charged, stored as
\* pending_review, campaign untouched
C8_Witness ==
    /\ phase = "answered"
    /\ request.donation.requires_review
    /\ Len(invoked) = 7
    /\ calls.payment = 1
    /\ Len(db.donations) = 1
    /\ db.donations[1].status = "pending_review"
    /\ calls.update = 0
    /\ db.campaign = before

\* the number of CampaignGoalReached events dispatched
GoalEvents == Cardinality({k \in 1..Len(events) : events[k] = "CampaignGoalReached"})

\* C9: for an active campaign below its goal, a completed donation of amount a
\* with current_amount + a >= goal_amount leaves the persisted campaign with
\* current_amount = old + a and status completed, and exactly one
\* CampaignGoalReached event is dispatched for that run; a completed donation
\* that does not reach the goal dispatches none.  Stated for the runs whose
\* campaign write was persisted.
C9_AutoCompletion ==
    ( /\ phase = "answered"
      /\ before.status = "active"
      /\ before.current_amount < before.goal_amount
      /\ Len(db.donations) = 1
      /\ db.donations[1].status = "completed"
      /\ request.processing_context.updated_campaign ) =>
        LET a == request.donation.amount IN
        /\ db.campaign.current_amount = before.current_amount + a
        /\ before.current_amount + a >= before.goal_amount =>
              /\ db.campaign.status = "completed"
              /\ GoalEvents = 1
        /\ before.current_amount + a < before.goal_amount =>
              /\ db.campaign.status = "active"
              /\ GoalEvents = 0

\* C10: a run in which every stage succeeds except that sending notifications
\* fails is reported as overall success: the final result is Success, the
\* donation is stored with status completed, and the caller of make_donation
\* receives success for that donation.
C10_NotificationFailureIsSuccess ==
    ( /\ phase = "answered"
      /\ ~request.donation.requires_review
      /\ ErrorBy("NotificationHandler")
      /\ \A e \in 1..Len(request.errors) :
            request.errors[e].handler = "NotificationHandler" ) =>
        /\ FinalResult = SUCCESS
        /\ Len(db.donations) = 1
        /\ db.donations[1].status = "completed"
        /\ answer = "success"

\* C11: if Storage succeeds and the campaign repository's update then fails
\* (it raises, or returns False because no document was written), the run's
\* result is Failure, the donation remains persisted with status completed,
\* the persisted campaign totals are unchanged, and the Notification handler
\* does not run.
C11_NoRollback ==
    ( /\ Len(invoked) >= 6
      /\ calls.update = 1
      /\ ~request.processing_context.updated_campaign ) =>
        /\ Len(db.donations) = 1
        /\ db.donations[1].status = "completed"
        /\ db.campaign = before
        /\ Ended
        /\ ret = FAILURE
        /\ Returned => FinalResult = FAILURE
        /\ Len(invoked) = 6
        /\ events = << >>

\* C12: after a successful run the stored donation carries the payment
\* processor's transaction id and fee: its fee_amount equals the fee the
\* processor returned (3% by credit card, 2.9% + 0.30 by PayPal, 1% by bank
\* transfer) and its net_amount equals amount - fee_amount.
C12_StoredFee ==
    ( /\ Returned
      /\ FinalResult = SUCCESS
      /\ Len(db.donations) = 1 ) =>
        LET d == db.donations[1] IN
        /\ d.transaction_id = "txn"
        /\ AskedMethod = "credit_card" => 1000 * d.fee_amount = 30 * d.amount
        /\ AskedMethod = "paypal" => 1000 * d.fee_amount = 29 * d.amount + 30000
        /\ AskedMethod = "bank_transfer" => 1000 * d.fee_amount = 10 * d.amount
        /\ d.net_amount = d.amount - d.fee_amount

\* the latest set() of key k is still in force at time t
Live(k, t) == k \in DOMAIN written /\ t < written[k].at + written[k].ttl

\* C14: after Set(k, v, ttl) with no intervening Set/Delete/Clear on k, Get(k)
\* returns v as long as ttl has not elapsed; once the expiry time has passed,
\* Get(k) removes the entry and returns not-found and Exists(k) is false; no
\* call returns a value from an expired entry.
C14_CacheCorrectness ==
    /\ lastop.op = "get" =>
          IF Live(lastop.key, lastop.at)
          THEN lastop.found /\ lastop.value = written[lastop.key].value
          ELSE ~lastop.found /\ lastop.key \notin DOMAIN cache
    /\ lastop.op = "exists" =>
          /\ lastop.found <=> Live(lastop.key, lastop.at)
          /\ ~lastop.found => lastop.key \notin DOMAIN cache

\* a Get at the instant of expiry found an entry in the cache, removed it and
\* returned not-found
C14_Witness ==
    /\ lastop.op = "get"
    /\ lastop.key \in DOMAIN lastop.before
    /\ lastop.before[lastop.key].expires_at = lastop.at
    /\ written[lastop.key].ttl = 600
    /\ ~lastop.found
    /\ lastop.key \notin DOMAIN cache

IsRead == lastop.op \in {"find_all", "find_by_id", "find_by_creator"}

IsWrite == lastop.op \in {"create", "update", "delete_campaign"}

\* entry k of cache c is served at time t
Unexpired(c, k, t) == k \in DOMAIN c /\ c[k].expires_at > t

\* the key a read is expected to use: the operation and its argument values
ExpectedKey ==
    CASE lastop.op = "find_all" ->
            "find_all_limit:" \o ValueOf(lastop.args, "limit")
            \o "_status:" \o ValueOf(lastop.args, "status")
      [] lastop.op = "find_by_id" -> "find_by_id_" \o lastop.args[1]
      [] lastop.op = "find_by_creator" -> "find_by_creator_" \o lastop.args[1]

\* objects xs are exactly the campaigns of snapshots ds
SameCampaigns(xs, ds) ==
    /\ \A x \in xs : \E d \in ds :
          /\ d._id = x.campaign_id
          /\ d.creator_id = x.creator_id
          /\ d.current_amount = x.current_amount
          /\ d.status = x.status
    /\ \A d \in ds : \E x \in xs : d._id = x.campaign_id
    /\ Cardinality(xs) = Cardinality(ds)

\* the read-through rule; a not-found answer of find_by_id is stored too iff
\* negative_cached
ReadThrough(negative_cached) ==
    IsRead =>
        /\ lastop.key = ExpectedKey
        /\ Unexpired(lastop.before, lastop.key, lastop.at) =>
              /\ lastop.hit
              /\ lastop.delegated = 0
              /\ ~lastop.raised
              /\ SameCampaigns(lastop.result, lastop.before[lastop.key].value.dicts)
              /\ cache = lastop.before
        /\ ~Unexpired(lastop.before, lastop.key, lastop.at) =>
              /\ ~lastop.hit
              /\ lastop.delegated = 1
              /\ ~lastop.raised =>
                    /\ lastop.result = lastop.wrapped
                    /\ IF negative_cached \/ lastop.op # "find_by_id"
                          \/ lastop.wrapped # {}
                       THEN /\ lastop.key \in DOMAIN cache
                            /\ SameCampaigns(lastop.wrapped,
                                             cache[lastop.key].value.dicts)
                            /\ cache[lastop.key].expires_at = lastop.at + 600
                       ELSE lastop.key \notin DOMAIN cache

\* C15 as stated: a read whose key has an unexpired entry returns the cached
\* snapshot without invoking the wrapped repository; a read that misses invokes
\* the wrapped repository exactly once, returns its result and stores it under
\* the same key; the key depends only on the operation name and the argument
\* values, whatever the order the filters are given in.
C15_ReadThroughAsStated == ReadThrough(TRUE)

\* C15: the same, except that a find_by_id which misses and finds no campaign
\* returns None and stores nothing, so the next find_by_id of that id delegates
\* again.
C15_ReadThrough == ReadThrough(FALSE)

\* a find_all with the status filter written first missed, delegated once and
\* stored the list under the key with limit first
C15_Witness ==
    /\ lastop.op = "find_all"
    /\ lastop.args = <<<<"status", "active">>, <<"limit", "None">>>>
    /\ lastop.key = "find_all_limit:None_status:active"
    /\ ~lastop.hit
    /\ lastop.delegated = 1
    /\ lastop.wrapped # {}
    /\ lastop.key \in DOMAIN cache
    /\ lastop.key \notin DOMAIN lastop.before

\* C16: after a successful update or delete through the cached campaign proxy,
\* every cached find_all result (any limit/status filter) and the find_by_id
\* entry of that campaign are gone from the cache, so the next such read
\* delegates to the wrapped repository.
C16_Invalidation ==
    (lastop.op \in {"update", "delete_campaign"} /\ ~lastop.raised /\ lastop.wrote) =>
        \A k \in DOMAIN cache :
            /\ ~Contains("find_all", k)
            /\ k # "find_by_id_" \o lastop.target

\* an update removed a cached find_all list and the campaign's find_by_id entry
C16_Witness ==
    /\ lastop.op = "update"
    /\ lastop.wrote
    /\ ~lastop.raised
    /\ lastop.target = "c1"
    /\ "find_by_id_c1" \in DOMAIN lastop.before
    /\ "find_all_limit:1_status:None" \in DOMAIN lastop.before
    /\ cache = EmptyCache

\* C17: if the wrapped repository's create, update or delete fails (it raises,
\* or reports that nothing was written), the proxy invalidates no cache key and
\* an error raised by the wrapped repository reaches the caller; a read whose
\* wrapped call fails adds no cache entry.
C17_FailedWriteKeepsCache ==
    /\ (IsWrite /\ (lastop.wrapped_raised \/ ~lastop.wrote)) =>
          /\ cache = lastop.before
          /\ lastop.wrapped_raised => lastop.raised
    /\ (IsRead /\ lastop.wrapped_raised) =>
          /\ lastop.raised
          /\ DOMAIN cache \subseteq DOMAIN lastop.before

\* the ids of the campaigns in the find_by_creator list cached for creator u
CreatorKey(u) == "find_by_creator_" \o u

\* C18: after a successful create, update or delete through the cached
\* campaign proxy, a later find_by_creator never returns a list that omits the
\* created campaign, contains the deleted campaign, or shows pre-update fields.
C18_OwnerListInvalidated ==
    (IsWrite /\ lastop.wrote /\ ~lastop.raised) =>
        \A u \in Creators :
            Unexpired(cache, CreatorKey(u), now) =>
                LET ds == cache[CreatorKey(u)].value.dicts IN
                /\ (lastop.op = "create" /\ u = lastop.args[1]) =>
                      \E d \in ds : d._id = lastop.target
                /\ lastop.op = "delete_campaign" =>
                      \A d \in ds : d._id # lastop.target
                /\ lastop.op = "update" =>
                      \A d \in ds : d._id = lastop.target =>
                          d.status = store[lastop.target].status

\* C13: after make_donation completes a donation that changes a campaign's
\* totals, the cached find_all(status=active) result and the cached find_by_id
\* entry of that campaign are invalidated: the next read through the cached
\* repository shows the updated current_amount and status.
C13_DonationInvalidatesCache ==
    (lastop.op = "make_donation" /\ lastop.wrote) =>
        \A k \in {"find_by_id_" \o lastop.target, "find_all_limit:None_status:active"} :
            Unexpired(cache, k, now) =>
                \A d \in cache[k].value.dicts :
                    d._id = lastop.target =>
                        /\ d.current_amount = store[lastop.target].current_amount
                        /\ d.status = store[lastop.target].status

\* the owner field of the resource (creator_id of a campaign, donor_id of a
\* donation) is the user's id
Owns(user, resource) ==
    \/ resource.creator_id # NoAttr /\ resource.creator_id = user.id
    \/ resource.donor_id # NoAttr /\ resource.donor_id = user.id

\* the resource an update or delete is about: the object handed to update, the
\* stored resource of the id handed to delete
ResourceOfCall ==
    IF access.op = "delete"
    THEN access.resources_before[access.target]
    ELSE access.checked

\* C19: whenever the access proxy decides a call, an anonymous caller is
\* denied whatever the operation, an authenticated caller is allowed find_all,
\* find_by_id and create, and update and delete are allowed iff the caller is
\* an admin or the owner field of the resource equals the caller's id; an
\* allowed call is passed to the wrapped repository and a denied one is not.
C19_AccessDecision ==
    access.decided =>
        /\ access.user = NoUser => ~access.allowed
        /\ (access.user # NoUser /\ access.op \in {"find_all", "find_by_id", "create"}) =>
              access.allowed
        /\ access.op \in {"update", "delete"} =>
              (access.allowed <=>
                  /\ access.user # NoUser
                  /\ access.user.role = "admin" \/ Owns(access.user, ResourceOfCall))
        /\ access.denied <=> ~access.allowed
        /\ access.delegated = IF access.allowed THEN 1 ELSE 0

\* a donor deleted a donation of their own
C19_Witness ==
    /\ access.op = "delete"
    /\ access.user.role = "donor"
    /\ access.resources_before[access.target].donor_id = access.user.id
    /\ access.allowed
    /\ access.delegated = 1
    /\ resources[access.target] = NoResource

\* C20: every find_all, find_by_id, create, update or delete call on the
\* access proxy, allowed or denied, appends exactly one entry with the caller's
\* id and role, the operation, the resource and the decision; earlier entries
\* stay as they were, so the length of the log is the number of calls made.
C20_OneLogEntryPerCall ==
    /\ Len(access_log) = attempts
    /\ access.op # "none" =>
          /\ Len(access_log) = Len(access.log_before) + 1
          /\ SubSeq(access_log, 1, Len(access.log_before)) = access.log_before
          /\ LET entry == access_log[Len(access_log)] IN
             /\ entry.user_id = access.user.id
             /\ entry.user_role = access.user.role
             /\ entry.operation = access.op
             /\ entry.resource = access.logged
             /\ entry.allowed = access.allowed

\* C21: when the access proxy denies a create, update or delete, the call
\* raises the authorization error "Access denied: <reason>", the wrapped
\* repository's create/update/delete is not invoked and the stored resources
\* are what they were before the call.
C21_DeniedWriteHasNoEffect ==
    ( /\ access.op \in {"create", "update", "delete"}
      /\ access.decided
      /\ ~access.allowed ) =>
        /\ access.denied
        /\ access.reason \in {"No user context", "Not owner or admin"}
        /\ access.error = "Access denied: " \o access.reason
        /\ access.delegated = 0
        /\ ~access.wrapped_raised
        /\ resources = access.resources_before

\* a donor's update of another user's campaign was denied
C21_Witness ==
    /\ access.op = "update"
    /\ access.user.role = "donor"
    /\ access.checked.creator_id \notin {NoAttr, access.user.id}
    /\ access.denied
    /\ access.error = "Access denied: Not owner or admin"
    /\ resources = access.resources_before

\* C22: a method call changes the campaign's status only along
\* draft->active (activate, which sets start_date when it is unset),
\* active->paused (pause), paused->active (resume), active/paused->completed
\* (complete, or add_donation bringing current_amount to goal_amount or above
\* while active) and any status but completed->cancelled (cancel); a campaign
\* that is completed or cancelled keeps that status through every call.
C22_StatusTransitions ==
    LET was == campaign_op.before
        op == campaign_op.op
    IN  /\ was.status # campaign_obj.status =>
              \/ /\ op = "activate"
                 /\ was.status = "draft" /\ campaign_obj.status = "active"
              \/ /\ op = "pause"
                 /\ was.status = "active" /\ campaign_obj.status = "paused"
              \/ /\ op = "resume"
                 /\ was.status = "paused" /\ campaign_obj.status = "active"
              \/ /\ op = "complete"
                 /\ was.status \in {"active", "paused"}
                 /\ campaign_obj.status = "completed"
              \/ /\ op = "add_donation"
                 /\ was.status = "active" /\ campaign_obj.status = "completed"
                 /\ campaign_obj.current_amount >= campaign_obj.goal_amount
              \/ /\ op = "cancel"
                 /\ was.status # "completed" /\ campaign_obj.status = "cancelled"
        /\ (op = "activate" /\ campaign_op.returned) =>
              campaign_obj.start_date =
                  IF was.start_date = -1 THEN campaign_op.at ELSE was.start_date
        /\ was.status \in {"completed", "cancelled"} =>
              campaign_obj.status = was.status

\* cancel was called on a campaign that a donation had completed, and refused
C22_Witness ==
    /\ campaign_op.op = "cancel"
    /\ campaign_op.before.status = "completed"
    /\ campaign_op.before.donation_count = 2
    /\ ~campaign_op.returned
    /\ campaign_obj.status = "completed"

\* C23: refund_donation succeeds only on a completed donation that has not
\* been refunded, and then makes it refunded; every refund_donation after a
\* successful one returns false and changes nothing; complete_donation and
\* fail_donation succeed only on a pending donation; a failed or refunded
\* donation keeps its status through every call.
C23_DonationLifecycle ==
    LET was == donation_op.before
        op == donation_op.op
    IN  /\ op = "refund_donation" =>
              /\ donation_op.returned <=>
                    (was.status = "completed" /\ was.refunded_at = -1)
              /\ donation_op.returned =>
                    /\ donation_obj.status = "refunded"
                    /\ donation_obj.refunded_at = donation_op.at
              /\ ~donation_op.returned => donation_obj = was
              /\ was.status = "refunded" =>
                    ~donation_op.returned /\ donation_obj = was
        /\ op = "complete_donation" =>
              /\ donation_op.returned <=> was.status = "pending"
              /\ donation_op.returned => donation_obj.status = "completed"
              /\ ~donation_op.returned => donation_obj = was
        /\ op = "fail_donation" =>
              /\ donation_op.returned <=> was.status = "pending"
              /\ donation_op.returned => donation_obj.status = "failed"
              /\ ~donation_op.returned => donation_obj = was
        /\ was.status \in {"failed", "refunded"} =>
              donation_obj.status = was.status

\* a second refund of a refunded donation was refused, at a later time
C23_Witness ==
    /\ donation_op.op = "refund_donation"
    /\ donation_op.before.status = "refunded"
    /\ donation_op.before.refunded_at < donation_op.at
    /\ donation_op.returned = FALSE
    /\ donation_obj = donation_op.before

\* C24: every call of generate_receipt_id on a donation returns the same
\* receipt id, and once receipt_id is set no method changes it.
C24_ReceiptIdempotence ==
    /\ Cardinality(donation_op.issued) <= 1
    /\ donation_op.op \in {"generate_receipt_id", "get_receipt_data"} =>
          /\ donation_op.returned = donation_obj.receipt_id
          /\ donation_op.returned # "None"
    /\ donation_op.before.receipt_id # "None" =>
          donation_obj.receipt_id = donation_op.before.receipt_id

\* generate_receipt_id on a refunded donation returned the id set at completion
C24_Witness ==
    /\ donation_op.op = "generate_receipt_id"
    /\ donation_obj.status = "refunded"
    /\ donation_op.before.receipt_id = "ORD-19700101-9F3A"
    /\ donation_op.returned = "ORD-19700101-9F3A"
    /\ donation_op.issued = {"ORD-19700101-9F3A"}

\* C25: a donation that has never been completed (it is pending or failed)
\* has no receipt_id, whatever read or display methods (get_receipt_data,
\* get_display_info) have been called on it.
C25_ReceiptOnlyAtCompletion ==
    ( /\ donation_obj.status \in {"pending", "failed"}
      /\ ~donation_op.direct ) =>
        donation_obj.receipt_id = "None"

\* the values of DonationStatus
DonationStatus == {"pending", "completed", "failed", "refunded"}

\* C26: in every reachable state, after the pipeline's Storage stage included,
\* the status of a donation is one of pending, completed, failed, refunded.
C26_DonationStatusEnum ==
    /\ donation_obj.status \in DonationStatus
    /\ request.donation.status \in DonationStatus
    /\ \A i \in 1..Len(db.donations) : db.donations[i].status \in DonationStatus

\* C27: a dispatch calls update on every attached observer exactly once, in
\* attachment order, whether or not an earlier observer's update raised, and
\* does not raise itself; no observer is attached twice.
C27_NotifyDelivery ==
    /\ \A i, j \in 1..Len(observers) : i # j => observers[i] # observers[j]
    /\ notified.event_type # "none" =>
          /\ Len(notified.deliveries) = Len(notified.attached)
          /\ \A i \in 1..Len(notified.attached) :
                notified.deliveries[i].observer = notified.attached[i]
          /\ \A i, j \in 1..Len(notified.deliveries) :
                i # j => notified.deliveries[i].observer # notified.deliveries[j].observer
          /\ ~notified.raised

\* the campaign updater, attached again after an observer whose update raised,
\* still received donation_completed and added the donation
C27_Witness ==
    /\ notified.event_type = "donation_completed"
    /\ notified.attached = <<"email", "analytics", "custom", "campaign">>
    /\ notified.deliveries[3].raised
    /\ notified.deliveries[4].observer = "campaign"
    /\ store["c1"].current_amount = notified.current_amount + 10000

\* C28: the event log never holds more than 1000 entries; it holds the most
\* recent min(n, 1000) of the n events dispatched, in dispatch order; an event
\* is in the log when the observers are notified of it.
C28_BoundedEventLog ==
    /\ Len(event_log) <= 1000
    /\ Len(event_log) = IF dispatch_count <= 1000 THEN dispatch_count ELSE 1000
    /\ \A j \in 1..Len(event_log) :
          event_log[j].serial = dispatch_count - Len(event_log) + j
    /\ notified.event_type # "none" =>
          /\ notified.last_logged = notified.serial
          /\ event_log[Len(event_log)].event_type = notified.event_type

\* the 1003rd event was logged: the log holds events 4 to 1003
C28_Witness ==
    /\ dispatch_count = 1003
    /\ Len(event_log) = 1000
    /\ event_log[1].serial = 4
    /\ event_log[1000].serial = 1003
    /\ Len(notified.deliveries) = 3

\* C29: when the campaign updater receives the donation_refunded event of a
\* donation whose refund it has already applied, the campaign's current_amount
\* and donation_count stay as they were; current_amount is never negative.
C29_RefundIdempotent ==
    /\ notified.repeated =>
          /\ store["c1"].current_amount = notified.current_amount
          /\ store["c1"].donation_count = notified.donation_count
    /\ \A id \in CampaignIds : store[id].current_amount >= 0

RECURSIVE SumOfUpdates(_)
\* the amounts of the runs whose update wrote the campaign
SumOfUpdates(order) ==
    IF order = << >> THEN 0
    ELSE runs[order[Len(order)]].amount + SumOfUpdates(SubSeq(order, 1, Len(order) - 1))

\* C30: the stored campaign is what the latest run to write made of its own
\* snapshot: current_amount is that snapshot's plus that run's amount and
\* donation_count that snapshot's plus one. So when a run wrote between
\* another run's read and its write, the stored totals miss the earlier
\* donation (a lost update); when every run read after the update before it,
\* the totals are the sum of all donations.
C30_LostUpdate ==
    update_order # << >> =>
        LET latest == runs[update_order[Len(update_order)]]
        IN  /\ db.campaign.current_amount = latest.campaign.current_amount + latest.amount
            /\ db.campaign.donation_count = latest.campaign.donation_count + 1
            /\ latest.read_after < Len(update_order) - 1 =>
                  db.campaign.current_amount < SumOfUpdates(update_order)
            /\ (\A i \in 1..Len(update_order) : runs[update_order[i]].read_after = i - 1) =>
                  /\ db.campaign.current_amount = SumOfUpdates(update_order)
                  /\ db.campaign.donation_count = Len(update_order)

\* two runs read the campaign before either wrote; both updates were written
\* and the stored totals show the second donation only
C30_Witness ==
    /\ update_order = <<"r1", "r2">>
    /\ runs["r1"].read_after = 0 /\ runs["r2"].read_after = 0
    /\ runs["r1"].amount = 10000 /\ runs["r2"].amount = 20000
    /\ db.campaign.current_amount = 20000
    /\ db.campaign.donation_count = 1

-----------------------------------------------------------------------------
(* One DonationProcessingPipeline instance serving two threads.  The chain  *)
(* is built once by __init__; each process_donation call builds its own     *)
(* DonationProcessingRequest and passes it down the chain as the argument   *)
(* of handle().  A step is one handler's handle() for one thread; the       *)
(* threads' steps interleave freely.  The donation repository is shared,    *)
(* each thread donates to a campaign of its own.                            *)

\* the requests the threads submit: a zero amount, a plain donation that
\* reaches the goal of its campaign, and a large one that is flagged for review
ServedAmounts == {0, 10000, 500000}

ServedPayments ==
    { [method |-> "credit_card", card |-> "plain", complete |-> TRUE, bad |-> FALSE],
      [method |-> "bitcoin", card |-> "plain", complete |-> TRUE, bad |-> FALSE] }

ServedCampaign ==
    [status |-> "active", ended |-> FALSE, goal_amount |-> GoalAmount,
     current_amount |-> DonationAmount, donation_count |-> 1]

\* a handler working on a request kept on the handler instance
request_of_instance(caller, latest) == latest

\* the request a handler works on is the one handle() was passed: the thread's own
request_of(caller, latest) == caller

\* _process of handler i on request rq with the campaign document of the
\* request's campaign, the collaborators answering as in a
process(i, rq, document, a) ==
    CASE i = 1 -> LET p == ValidationHandler_process(rq)
                  IN [result |-> p.result, request |-> p.request, document |-> document]
      [] i = 2 -> LET p == DuplicateCheckHandler_process(rq)
                  IN [result |-> p.result, request |-> p.request, document |-> document]
      [] i = 3 -> LET p == FraudDetectionHandler_process(rq, ImplementedSignals)
                  IN [result |-> p.result, request |-> p.request, document |-> document]
      [] i = 4 -> LET p == PaymentProcessingHandler_process(rq)
                  IN [result |-> p.result, request |-> p.request, document |-> document]
      [] i = 5 -> LET p == DatabaseStorageHandler_process(rq, << >>, a.created)
                  IN [result |-> p.result, request |-> p.request, document |-> document]
      [] i = 6 -> LET p == CampaignUpdateHandler_process(rq, document, a.updated)
                  IN [result |-> p.result, request |-> p.request, document |-> p.document]
      [] i = 7 -> LET p == NotificationHandler_process(rq, << >>, a.sent1, a.sent2)
                  IN [result |-> p.result, request |-> p.request, document |-> document]

\* validation_handler.handle(request) run to its end without interruption
RECURSIVE chain(_, _, _, _)
chain(i, rq, document, a) ==
    LET p == process(i, rq, document, a)
        o == handle(i, p.result, p.request)
    IN IF o.next = 0
       THEN [request |-> o.request, ret |-> o.ret, document |-> p.document]
       ELSE chain(o.next, o.request, p.document, a)

\* process_donation run on its own: the request it returns
process_donation(rq, document, a) ==
    LET c == chain(1, rq, document, a)
    IN [request |-> set_context_value(c.request, "final_result", c.ret),
        ret |-> c.ret, document |-> c.document]

\* another thread is inside process_donation
Overlaps(t) == \E u \in Threads \ {t} : served[u].pc = "running"

\* handle() of handler i for thread t, the collaborators answering as in a
Served(t, i, a) ==
    LET w == request_of(t, entered)
        p == process(i, served[w].request, served[t].document, a)
        o == handle(i, p.result, p.request)
    IN served' = [served EXCEPT ![w].request = o.request,
                                ![t].document = p.document,
                                ![t].answers = a,
                                ![t].cur = o.next,
                                ![t].ret = o.ret,
                                ![t].pc = IF o.next = 0 THEN "unwound" ELSE "running",
                                ![t].overlapped = @ \/ Overlaps(t)]

At(t, i) == served[t].pc = "running" /\ served[t].cur = i

ServeSubmit ==
    \E t \in Threads, amount \in ServedAmounts, pd \in ServedPayments :
        /\ served[t].pc = "start"
        /\ LET rq == [EmptyRequest EXCEPT !.donation.amount = amount,
                                          !.donation.net_amount = amount,
                                          !.campaign = ServedCampaign,
                                          !.payment_data = pd]
           IN served' = [served EXCEPT ![t].pc = "running", ![t].cur = 1,
                                       ![t].given = rq, ![t].request = rq,
                                       ![t].document = ServedCampaign,
                                       ![t].overlapped = Overlaps(t)]
        /\ entered' = t
        /\ UNCHANGED saved
        /\ UNCHANGED serveframe

ServeValidation ==
    \E t \in Threads :
        /\ At(t, 1)
        /\ Served(t, 1, served[t].answers)
        /\ UNCHANGED <<entered, saved>>
        /\ UNCHANGED serveframe

ServeDuplicateCheck ==
    \E t \in Threads :
        /\ At(t, 2)
        /\ Served(t, 2, served[t].answers)
        /\ UNCHANGED <<entered, saved>>
        /\ UNCHANGED serveframe

ServeFraudDetection ==
    \E t \in Threads :
        /\ At(t, 3)
        /\ Served(t, 3, served[t].answers)
        /\ UNCHANGED <<entered, saved>>
        /\ UNCHANGED serveframe

ServePaymentProcessing ==
    \E t \in Threads :
        /\ At(t, 4)
        /\ Served(t, 4, served[t].answers)
        /\ UNCHANGED <<entered, saved>>
        /\ UNCHANGED serveframe

ServeDatabaseStorage ==
    \E t \in Threads, created \in Outcomes :
        /\ At(t, 5)
        /\ Served(t, 5, [served[t].answers EXCEPT !.created = created])
        /\ saved' = IF created = "ok" THEN Append(saved, t) ELSE saved
        /\ UNCHANGED entered
        /\ UNCHANGED serveframe

ServeCampaignUpdate ==
    \E t \in Threads, updated \in Outcomes \cup {"nomatch"} :
        /\ At(t, 6)
        /\ Served(t, 6, [served[t].answers EXCEPT !.updated = updated])
        /\ UNCHANGED <<entered, saved>>
        /\ UNCHANGED serveframe

ServeNotification ==
    \E t \in Threads, sent1 \in Outcomes, sent2 \in Outcomes :
        /\ At(t, 7)
        /\ Served(t, 7, [served[t].answers EXCEPT !.sent1 = sent1, !.sent2 = sent2])
        /\ UNCHANGED <<entered, saved>>
        /\ UNCHANGED serveframe

\* the tail of process_donation: final_result is set on the thread's request
ServeReturn ==
    \E t \in Threads :
        /\ served[t].pc = "unwound"
        /\ served' = [served EXCEPT
                         ![t].request = set_context_value(@, "final_result",
                                                          served[t].ret),
                         ![t].pc = "returned"]
        /\ UNCHANGED <<entered, saved>>
        /\ UNCHANGED serveframe

NextServed ==
    \/ ServeSubmit
    \/ ServeValidation
    \/ ServeDuplicateCheck
    \/ ServeFraudDetection
    \/ ServePaymentProcessing
    \/ ServeDatabaseStorage
    \/ ServeCampaignUpdate
    \/ ServeNotification
    \/ ServeReturn

SpecServed == InitProxies /\ [][NextServed]_vars

\* C31: one pipeline serves concurrent requests. Whatever the interleaving of
\* two process_donation runs on distinct requests, donations and campaigns,
\* each run returns the result, errors, warnings, processing log and context
\* (and leaves its campaign document) as the same call run on its own with
\* the collaborators answering alike.
C31_StatelessPipeline ==
    \A t \in Threads :
        served[t].pc = "returned" =>
            LET alone == process_donation(served[t].given, ServedCampaign,
                                          served[t].answers)
            IN /\ served[t].request = alone.request
               /\ served[t].ret = alone.ret
               /\ served[t].document = alone.document

\* two overlapping runs on different requests have both returned, one with
\* SUCCESS after a review flag, the other with FAILURE
C31_Witness ==
    /\ \A t \in Threads : served[t].pc = "returned" /\ served[t].overlapped
    /\ served["t1"].ret = SUCCESS
    /\ served["t1"].request.donation.status = "pending_review"
    /\ served["t2"].ret = FAILURE
    /\ Len(served["t2"].request.errors) = 1
    /\ saved = <<"t1">>

-----------------------------------------------------------------------------
(* Two threads calling one InMemoryCache, as the cached repository proxies   *)
(* of a multi-threaded server do.  The cache takes no lock, so a call is a   *)
(* sequence of dictionary operations (each atomic under the interpreter      *)
(* lock) between which the other thread may run:                             *)
(*   get      key in _cache ; _cache[key] ; expires_at > utcnow() ; del      *)
(*   delete   key in _cache ; del _cache[key]                                *)
(*   set      _cache[key] = entry                                            *)
(*   clear    _cache.clear()                                                 *)
(*   invalidate_cache_pattern   iterate _cache.keys() ; delete(key) for each *)
(* A subscript or del of a missing key raises KeyError; advancing a          *)
(* dictionary iterator after the dictionary changed size raises              *)
(* RuntimeError.                                                             *)

WorkerTTLs == {0, TickSeconds}

\* the pattern the proxies invalidate with is a substring of both keys
pattern == "k"

\* the call of thread t ends: what it returned, or the exception it raised
Ends(t, returned, error, stale) ==
    [Idle EXCEPT !.op = workers[t].op, !.key = workers[t].key,
                 !.returned = returned, !.error = error, !.stale = stale]

\* delete(key) of an invalidation has finished: the next key, or the end
Continues(t) ==
    IF workers[t].op = "invalidate" /\ workers[t].todo # {}
    THEN LET k == CHOOSE k \in workers[t].todo : TRUE
         IN [workers[t] EXCEPT !.pc = "check", !.key = k, !.todo = @ \ {k}]
    ELSE Ends(t, NoValue, "none", FALSE)

\* set: one dictionary store
WorkerSet ==
    \E t \in Threads, key \in RawKeys, ttl \in WorkerTTLs :
        /\ workers[t].pc = "idle"
        /\ cache' = cache_set(cache, key, "v1", ttl, now)
        /\ workers' = [workers EXCEPT ![t] = [Idle EXCEPT !.op = "set", !.key = key]]
        /\ UNCHANGED workerframe

\* clear: one dictionary clear
WorkerClear ==
    \E t \in Threads :
        /\ workers[t].pc = "idle"
        /\ cache' = cache_clear(cache)
        /\ workers' = [workers EXCEPT ![t] = [Idle EXCEPT !.op = "clear"]]
        /\ UNCHANGED workerframe

\* get, exists (self.get(key) is not None) or delete is entered
WorkerCall ==
    \E t \in Threads, op \in {"get", "exists", "delete"}, key \in RawKeys :
        /\ workers[t].pc = "idle"
        /\ workers' = [workers EXCEPT ![t] =
                          [Idle EXCEPT !.pc = "check", !.op = op, !.key = key]]
        /\ UNCHANGED cache
        /\ UNCHANGED workerframe

\* if key in self._cache
WorkerCheck ==
    \E t \in Threads :
        /\ workers[t].pc = "check"
        /\ workers' = [workers EXCEPT ![t] =
              IF workers[t].key \in DOMAIN cache
              THEN [@ EXCEPT !.pc = IF workers[t].op \in {"get", "exists"}
                                    THEN "read" ELSE "del"]
              ELSE Continues(t)]
        /\ UNCHANGED cache
        /\ UNCHANGED workerframe

\* entry = self._cache[key]
WorkerRead ==
    \E t \in Threads :
        /\ workers[t].pc = "read"
        /\ workers' = [workers EXCEPT ![t] =
              IF workers[t].key \in DOMAIN cache
              THEN [@ EXCEPT !.pc = "decide", !.entry = cache[workers[t].key]]
              ELSE Ends(t, NoValue, "KeyError", FALSE)]
        /\ UNCHANGED cache
        /\ UNCHANGED workerframe

\* if entry['expires_at'] > datetime.utcnow(): return entry['value']
WorkerDecide ==
    \E t \in Threads :
        /\ workers[t].pc = "decide"
        /\ workers' = [workers EXCEPT ![t] =
              IF workers[t].entry.expires_at > now
              THEN Ends(t, workers[t].entry.value, "none",
                        workers[t].key \notin DOMAIN cache)
              ELSE [@ EXCEPT !.pc = "del"]]
        /\ UNCHANGED cache
        /\ UNCHANGED workerframe

\* del self._cache[key]
WorkerDel ==
    \E t \in Threads :
        /\ workers[t].pc = "del"
        /\ IF workers[t].key \in DOMAIN cache
           THEN /\ cache' = Without(cache, workers[t].key)
                /\ workers' = [workers EXCEPT ![t] = Continues(t)]
           ELSE /\ cache' = cache
                /\ workers' = [workers EXCEPT ![t] = Ends(t, NoValue, "KeyError", FALSE)]
        /\ UNCHANGED workerframe

\* invalidate_cache_pattern is entered: the iterator over _cache.keys()
WorkerInvalidate ==
    \E t \in Threads :
        /\ workers[t].pc = "idle"
        /\ workers' = [workers EXCEPT ![t] =
                          [Idle EXCEPT !.pc = "next", !.op = "invalidate",
                                       !.size = Cardinality(DOMAIN cache),
                                       !.remaining = DOMAIN cache]]
        /\ UNCHANGED cache
        /\ UNCHANGED workerframe

\* one advance of the iterator of [key for key in keys() if pattern in key]
WorkerNext ==
    \E t \in Threads :
        /\ workers[t].pc = "next"
        /\ workers' = [workers EXCEPT ![t] =
              IF Cardinality(DOMAIN cache) # workers[t].size
              THEN Ends(t, NoValue, "RuntimeError", FALSE)
              ELSE IF workers[t].remaining = {}
              THEN Continues(t)
              ELSE LET k == CHOOSE k \in workers[t].remaining : TRUE
                   IN [@ EXCEPT !.remaining = @ \ {k},
                                !.todo = IF Contains(pattern, k) THEN @ \cup {k} ELSE @]]
        /\ UNCHANGED cache
        /\ UNCHANGED workerframe

NextWorkers ==
    \/ WorkerSet
    \/ WorkerClear
    \/ WorkerCall
    \/ WorkerCheck
    \/ WorkerRead
    \/ WorkerDecide
    \/ WorkerDel
    \/ WorkerInvalidate
    \/ WorkerNext

SpecWorkers == InitProxies /\ [][NextWorkers]_vars

\* C32: under any interleaving of concurrent get, set, delete, exists, clear
\* and pattern-invalidation calls on the shared cache, no call fails with an
\* error and no call returns the value of an entry that is deleted (or
\* expired) when it returns.
C32_ConcurrentCacheSafe ==
    \A t \in Threads :
        /\ workers[t].error = "none"
        /\ ~workers[t].stale

-----------------------------------------------------------------------------
(* DatabaseManager (database_manager.py): the singleton under threads.      *)
(* DatabaseManager() is type.__call__: obj = cls.__new__(cls), then          *)
(* obj.__init__(), then obj is handed to the caller.  A step is one line of  *)
(* __new__ or of __init__; _instance is 0 for None and otherwise the index   *)
(* of the instance among the objects created.  Only __new__ takes _lock.     *)

\* __new__ with a single test of _instance, made before the lock is taken
still_none_unchecked(instance) == TRUE

\* the second test of the double-checked locking, made under the lock
still_none(instance) == instance = 0

\* super().__new__(cls): an instance with no attribute set
NewObject == [initialized |-> "unset", client |-> "None", is_connected |-> FALSE,
              inits |-> 0]

\* __new__: if cls._instance is None
NewCheck ==
    \E t \in Callers :
        /\ callers[t].pc \in {"idle", "done"}
        /\ callers' = [callers EXCEPT ![t].pc = IF manager.instance = 0
                                                THEN "acquire" ELSE "return",
                                      ![t].raced = manager.instance = 0]
        /\ UNCHANGED manager
        /\ UNCHANGED singletonframe

\* with cls._lock: the lock is taken when free
NewAcquire ==
    \E t \in Callers :
        /\ callers[t].pc = "acquire"
        /\ manager.lock = "free"
        /\ manager' = [manager EXCEPT !.lock = t]
        /\ callers' = [callers EXCEPT ![t].pc = "recheck"]
        /\ UNCHANGED singletonframe

\* if cls._instance is None, under the lock
NewRecheck ==
    \E t \in Callers :
        /\ callers[t].pc = "recheck"
        /\ callers' = [callers EXCEPT ![t].pc = IF still_none(manager.instance)
                                                THEN "create" ELSE "release"]
        /\ UNCHANGED manager
        /\ UNCHANGED singletonframe

\* cls._instance = super(DatabaseManager, cls).__new__(cls)
NewCreate ==
    \E t \in Callers :
        /\ callers[t].pc = "create"
        /\ manager' = [manager EXCEPT !.objects = Append(@, NewObject),
                                      !.instance = Len(manager.objects) + 1]
        /\ callers' = [callers EXCEPT ![t].pc = "mark"]
        /\ UNCHANGED singletonframe

\* cls._instance._initialized = False
NewMark ==
    \E t \in Callers :
        /\ callers[t].pc = "mark"
        /\ manager' = [manager EXCEPT !.objects[manager.instance].initialized = "False"]
        /\ callers' = [callers EXCEPT ![t].pc = "release"]
        /\ UNCHANGED singletonframe

\* the end of the with block
NewRelease ==
    \E t \in Callers :
        /\ callers[t].pc = "release"
        /\ manager' = [manager EXCEPT !.lock = "free"]
        /\ callers' = [callers EXCEPT ![t].pc = "return"]
        /\ UNCHANGED singletonframe

\* return cls._instance
NewReturn ==
    \E t \in Callers :
        /\ callers[t].pc = "return"
        /\ callers' = [callers EXCEPT ![t].pc = "init", ![t].obj = manager.instance]
        /\ UNCHANGED manager
        /\ UNCHANGED singletonframe

\* __init__: if not getattr(self, '_initialized', False)
InitCheck ==
    \E t \in Callers :
        /\ callers[t].pc = "init"
        /\ callers' = [callers EXCEPT ![t].pc =
                          IF manager.objects[callers[t].obj].initialized # "True"
                          THEN "fields" ELSE "done"]
        /\ UNCHANGED manager
        /\ UNCHANGED singletonframe

\* __init__: _client, _database, _connection_string, _database_name and
\* _is_connected are set to their initial values
InitFields ==
    \E t \in Callers :
        /\ callers[t].pc = "fields"
        /\ LET o == manager.objects[callers[t].obj]
           IN manager' = [manager EXCEPT
                  !.objects[callers[t].obj] =
                      [o EXCEPT !.client = "None", !.is_connected = FALSE,
                                !.inits = @ + 1],
                  !.reset = @ \/ o.is_connected]
        /\ callers' = [callers EXCEPT ![t].pc = "flag"]
        /\ UNCHANGED singletonframe

\* __init__: self._initialized = True; the constructor call returns
InitFlag ==
    \E t \in Callers :
        /\ callers[t].pc = "flag"
        /\ manager' = [manager EXCEPT !.objects[callers[t].obj].initialized = "True"]
        /\ callers' = [callers EXCEPT ![t].pc = "done"]
        /\ UNCHANGED singletonframe

\* initialize() on the instance the caller holds: the client is created and
\* the ping answers, or the ping raises
Initialize ==
    \E t \in Callers, ping \in Outcomes :
        /\ callers[t].pc = "done"
        /\ manager' = [manager EXCEPT
                          !.objects[callers[t].obj].client = "MongoClient",
                          !.objects[callers[t].obj].is_connected = (ping = "ok")]
        /\ UNCHANGED callers
        /\ UNCHANGED singletonframe

NextSingleton ==
    \/ NewCheck
    \/ NewAcquire
    \/ NewRecheck
    \/ NewCreate
    \/ NewMark
    \/ NewRelease
    \/ NewReturn
    \/ InitCheck
    \/ InitFields
    \/ InitFlag
    \/ Initialize

SpecSingleton == InitProxies /\ [][NextSingleton]_vars

\* C33: the singleton is thread-safe. In every interleaving of threads
\* constructing DatabaseManager(), at most one instance object is ever
\* created and every constructor call is handed that one instance.
C33_OneInstance ==
    /\ Len(manager.objects) <= 1
    /\ \A t \in Callers :
          callers[t].pc \in {"init", "fields", "flag", "done"} => callers[t].obj = 1

\* three threads all found _instance None before any of them created it, one
\* created the instance under the lock, and all three hold it
C33_Witness ==
    /\ \A t \in Callers : callers[t].pc = "done" /\ callers[t].obj = 1
    /\ \A t \in Callers : callers[t].raced
    /\ Len(manager.objects) = 1

\* C40: once initialize() has established a connection, no constructor call,
\* made concurrently with or after the first construction, resets the
\* connection state (client, is_connected): the one-time field initialisation
\* of __init__ runs at most once over the life of the singleton.
C40_InitialisedOnce ==
    /\ ~manager.reset
    /\ \A i \in 1..Len(manager.objects) : manager.objects[i].inits <= 1

-----------------------------------------------------------------------------
(* make_donation after make_donation, one at a time *)

\* C34: no lost update in sequential use. A donation made through
\* make_donation and stored as completed leaves the persisted campaign with
\* the current_amount it had when the donation was submitted plus the
\* donation's amount, and with one donation more: the snapshot the pipeline
\* updates is never an out-of-date cached copy.
C34_SequentialTotals ==
    (lastop.op = "make_donation" /\ lastop.wrote) =>
        /\ store[lastop.target].current_amount =
               lastop.stored.current_amount + DonationAmount
        /\ store[lastop.target].donation_count = lastop.stored.donation_count + 1

\* C35: make_donation never stores a completed donation, nor charges a
\* payment, for a campaign whose persisted status when the donation is
\* submitted is not active.
C35_OnlyActiveCampaigns ==
    lastop.op = "make_donation" =>
        /\ lastop.stored.exists
        /\ lastop.stored.status = "active"

-----------------------------------------------------------------------------
(* A completed donation passing the last two stages of the pipeline, with    *)
(* the event manager of get_donation_event_manager behind the notification   *)
(* stage.  CampaignUpdateHandler adds the donation to the campaign and       *)
(* persists it; NotificationHandler then hands the donation to the event     *)
(* manager.  That call raises (the handler records an error and a warning)   *)
(* or the donation_completed event goes out on the bus: _log_event, then     *)
(* notify to the attached observers, of which the campaign updater reads     *)
(* the persisted campaign, adds the donation and persists it.                *)

PipelineDonationCompleted ==
    /\ dispatch_count < MaxEvents
    /\ \E data \in DonationData, sent \in Outcomes, raising \in SUBSET {"custom"},
          failed \in BOOLEAN :
          LET id == data.campaign_id
              staged == [store EXCEPT ![id] =
                            DocumentOf(AddToCampaign(CampaignOf(store, id), data.amount))]
              entry == [event_type |-> "donation_completed",
                        serial |-> dispatch_count + 1,
                        donation_id |-> data.donation_id, amount |-> data.amount]
              logged == IF sent = "ok" THEN log_event(event_log, entry) ELSE event_log
              calls_made == IF sent = "ok" THEN notify(observers, 1, raising) ELSE << >>
              reached == \E i \in 1..Len(calls_made) : calls_made[i].observer = "campaign"
          IN /\ store[id].exists
             /\ store[id].status = "active"
             /\ event_log' = logged
             /\ store' = IF reached
                         THEN campaign_observer_update(staged, "donation_completed",
                                                       data, failed, now)
                         ELSE staged
             /\ notified' = [event_type |-> "donation_completed",
                             serial |-> dispatch_count + 1,
                             donation_id |-> data.donation_id,
                             attached |-> observers, deliveries |-> calls_made,
                             last_logged |-> IF logged = << >> THEN 0
                                             ELSE logged[Len(logged)].serial,
                             raised |-> sent = "raise", staged |-> TRUE,
                             kept |-> observers,
                             repeated |-> FALSE,
                             current_amount |-> store[id].current_amount,
                             donation_count |-> store[id].donation_count]
    /\ dispatch_count' = dispatch_count + 1
    /\ UNCHANGED <<observers, reconciled>>
    /\ UNCHANGED observerframe

NextCounted ==
    \/ Attach
    \/ Detach
    \/ PipelineDonationCompleted

SpecCounted == InitProxies /\ [][NextCounted]_vars

-----------------------------------------------------------------------------
(* Ownership against the stored resource *)

\* the user named by the owner field of a resource
OwnerOf(resource) ==
    IF hasattr(resource, "creator_id") THEN resource.creator_id ELSE resource.donor_id

\* C37: ownership is evaluated against the stored resource. A caller who is
\* not an admin never gets the wrapped repository's update applied to a
\* resource id whose persisted owner (creator_id / donor_id) is another user,
\* whatever owner field the object handed in carries, and an update by such a
\* caller never changes which user owns a stored resource.
C37_StoredOwnership ==
    ( /\ access.op = "update"
      /\ access.delegated = 1
      /\ ~access.wrapped_raised
      /\ access.user.role # "admin"
      /\ access.resources_before[access.target] # NoResource ) =>
        /\ OwnerOf(access.resources_before[access.target]) = access.user.id
        /\ OwnerOf(resources[access.target]) =
               OwnerOf(access.resources_before[access.target])

-----------------------------------------------------------------------------
(* Reachability of the reject band with the signal checks as implemented *)

\* the request fires every signal that depends on the request: a large
\* amount, equal to one of the suspicious amounts, paid with a test card
FiresEverySignal(rq) ==
    /\ LargeAmount(rq.donation.amount)
    /\ rq.donation.amount \in suspicious_amounts
    /\ has_suspicious_payment_pattern(rq.payment_data)

\* C38: fraud rejection is reachable: some donation request that passes
\* Validation is scored 70 or more by FraudDetection, with the signal checks
\* as implemented, and fails there.  The score is the sum of the weights of
\* the signals that fire, so some request is rejected exactly when the request
\* firing every signal a request can fire is rejected; the claim is stated
\* for that request.
C38_FraudRejectionReachable ==
    (Score >= 0 /\ FiresEverySignal(request)) =>
        /\ Score >= RejectScore
        /\ Logged("FraudDetectionHandler", FAILURE)

-----------------------------------------------------------------------------
(* Subject.notify while an observer detaches.  notify is                     *)
(*     for observer in self._observers: observer.update(event_type, data)    *)
(* over the list itself, not a copy: the loop keeps a position in the list   *)
(* and takes the element at that position on each round.  detach removes     *)
(* the observer from that same list, so a detach made inside update moves    *)
(* every later element one place down under the loop's position.             *)

RECURSIVE notify_live(_, _, _, _)
\* notify from position i of the live list obs on, when update of the
\* observer detacher calls detach(target): the update calls made, in order,
\* and the list afterwards
notify_live(obs, i, detacher, target) ==
    IF i > Len(obs)
    THEN [calls |-> << >>, observers |-> obs]
    ELSE LET after == IF obs[i] = detacher THEN detach(obs, target) ELSE obs
             rest == notify_live(after, i + 1, detacher, target)
         IN [calls |-> << [observer |-> obs[i], raised |-> FALSE] >> \o rest.calls,
             observers |-> rest.observers]

\* donation_created with a custom observer attached whose update detaches an
\* observer (itself or another) from the bus
DonationCreatedDetaching ==
    /\ dispatch_count < MaxEvents
    /\ IsAttached(observers, "custom")
    /\ \E data \in DonationData, target \in {"custom", "email", "campaign"} :
          LET entry == [event_type |-> "donation_created",
                        serial |-> dispatch_count + 1,
                        donation_id |-> data.donation_id, amount |-> data.amount]
              logged == log_event(event_log, entry)
              r == notify_live(observers, 1, "custom", target)
          IN /\ event_log' = logged
             /\ observers' = r.observers
             /\ notified' = [event_type |-> "donation_created",
                             serial |-> dispatch_count + 1,
                             donation_id |-> data.donation_id,
                             attached |-> observers, deliveries |-> r.calls,
                             last_logged |-> logged[Len(logged)].serial,
                             raised |-> FALSE, staged |-> FALSE,
                             kept |-> r.observers, repeated |-> FALSE,
                             current_amount |-> store[data.campaign_id].current_amount,
                             donation_count |-> store[data.campaign_id].donation_count]
    /\ dispatch_count' = dispatch_count + 1
    /\ UNCHANGED <<reconciled, store>>
    /\ UNCHANGED observerframe

NextDetaching ==
    \/ Attach
    \/ Detach
    \/ DonationCreatedDetaching

SpecDetaching == InitProxies /\ [][NextDetaching]_vars

\* the update calls a dispatch made to observer o
Deliveries(o) ==
    Cardinality({i \in 1..Len(notified.deliveries) : notified.deliveries[i].observer = o})

\* C39: delivery is robust to detaching during dispatch. When an observer
\* detaches itself or another observer while it handles an event, every
\* observer that was attached when notify started and has not been detached
\* receives that event exactly once.
C39_DetachDuringDispatch ==
    \A i \in 1..Len(notified.attached) :
        IsAttached(notified.kept, notified.attached[i]) =>
            Deliveries(notified.attached[i]) = 1

====
